---- MODULE Spec2Model ----
(***************************************************************************)
(* A model of the recommendation bot of src/bot.py: the catalog store      *)
(* (tables objects, genres, object_genres, user_views of src/db_setup.py), *)
(* the per-user session dictionary context.user_data, the message stack,   *)
(* and one action per update handler.  Every handler runs to completion    *)
(* before the next update is taken (the Application is built without       *)
(* concurrent updates), so a handler is one atomic action.                 *)
(*                                                                         *)
(* Texts (message texts, genre names) are sequences of one-character       *)
(* strings, so that split(",") and strip() are computed, not assumed.      *)
(* Object types are transliterated: "film" = "фильм", "serial" = "сериал", *)
(* "kniga" = "книга".                                                      *)
(***************************************************************************)
EXTENDS Integers, Sequences, FiniteSets, TLC

\* ------------------------------------------------------------------ bounds

\* Rows the objects table may hold at once in the data-entry specification.
MaxObjects == 2
\* Message handles of one chat that may be displayed at once.
MaxMsg == 7
\* Largest page index a page button press may carry.
MaxPage == 2
\* Objects of the catalog the navigation specification starts from.
NavObjects == 6
\* Objects the navigation specification leaves in the catalog.
NavMinObjects == 5
\* Objects of the catalog the filter and store specifications start from.
StoreObjects == 2
\* Displayed messages whose deletion fails.
MaxUndeletable == 2
\* Storage operations in a row that one outage lets fail.
MaxFailures == 2

\* ------------------------------------------------------- program constants

PAGE_SIZE == 5
ADMIN_IDS == {1, 2}
Users == {1, 2, 3}

\* The keys of category_map and the payload categories the model presses.
Categories == {"films", "series", "books"}
PayloadCategories == {"films", "books"}

category_map(category) ==
    CASE category = "films" -> "film"
      [] category = "series" -> "serial"
      [] category = "books" -> "kniga"
      [] OTHER -> "NULL"

\* A check that lets every user through.
AnyUserIsAdmin(user_id) == user_id \in Users

is_admin(user_id) == user_id \in ADMIN_IDS

\* Genre names that button payloads carry.
GenreD == <<"d">>
GenreC == <<"c">>
GenreNames == {GenreD, GenreC}

\* ------------------------------------------------------------------ state

VARIABLES
    objects,          \* table objects: id -> row, for the ids that exist
    genres,           \* table genres: row id (index) -> name, names unique
    object_genres,    \* table object_genres: rows <<object_id, genre_id>>, no key
    user_views,       \* table user_views: set of <<user_id, object_id>>
    message_stack,    \* user_data['message_stack'] per user: levels of handles
    selected_genres,  \* user_data['selected_genres'] per user
    viewed_filter,    \* user_data['viewed_filter'] per user
    results_cache,    \* user_data['results_cache'] per user: rows of the last query
    results_page,     \* user_data['results_page'] per user
    current_category, \* user_data['current_category'] per user
    new_object,       \* user_data['new_object'] per user
    conv_state,       \* state of conv_handler per user
    live,             \* per user: handles of screen messages sent and not deleted
    screen,           \* per user: what the screen last sent or edited shows
    pops,             \* the pop_and_delete_messages calls of the last update
    raised,           \* the exception the last update's handler ended with
    last,             \* the last update handled: the handler and the user
    edit_target,      \* user_data['edit_object_id'], ['edit_category'], ['edit_field']
    edit_state,       \* state of edit_conv_handler per user
    storage_fails,    \* how many of the coming storage operations fail
    undeletable,      \* per user: displayed handles whose deletion fails
    reply             \* the text message the last handler sent outside the stack

vars == <<objects, genres, object_genres, user_views, message_stack,
          selected_genres, viewed_filter, results_cache, results_page,
          current_category, new_object, conv_state, live, screen, pops, raised,
          last, edit_target, edit_state, storage_fails, undeletable, reply>>

db == <<objects, genres, object_genres, user_views>>
env == <<storage_fails, undeletable>>
session == <<message_stack, selected_genres, viewed_filter, results_cache,
             results_page, current_category, new_object, conv_state, live,
             screen, edit_target, edit_state>>

\* ------------------------------------------------------------ small helpers

RECURSIVE SeqToSet(_)
SeqToSet(s) == IF s = <<>> THEN {} ELSE {Head(s)} \cup SeqToSet(Tail(s))

RECURSIVE SetToSortedSeq(_)
SetToSortedSeq(S) ==
    IF S = {} THEN <<>>
    ELSE LET m == CHOOSE x \in S : \A y \in S : x <= y
         IN <<m>> \o SetToSortedSeq(S \ {m})

RECURSIVE Remove(_, _)
\* list.remove(x): drops the first occurrence of x.
Remove(s, x) ==
    IF s = <<>> THEN <<>>
    ELSE IF Head(s) = x THEN Tail(s)
    ELSE <<Head(s)>> \o Remove(Tail(s), x)

\* An optional value: <<>> is "no such key", <<v>> is the value v.
None == <<>>
Some(v) == <<v>>

\* -------------------------------------------------------------------- texts

\* str.strip(): leading and trailing blanks removed.
RECURSIVE LStrip(_)
LStrip(text) ==
    IF text # <<>> /\ Head(text) = " " THEN LStrip(Tail(text)) ELSE text

RECURSIVE RStrip(_)
RStrip(text) ==
    IF text # <<>> /\ text[Len(text)] = " "
    THEN RStrip(SubSeq(text, 1, Len(text) - 1)) ELSE text

Strip(text) == RStrip(LStrip(text))

\* str.split(","): the pieces between the commas, empty pieces kept.
RECURSIVE SplitFrom(_, _)
SplitFrom(text, piece) ==
    IF text = <<>> THEN <<piece>>
    ELSE IF Head(text) = "," THEN <<piece>> \o SplitFrom(Tail(text), <<>>)
    ELSE SplitFrom(Tail(text), Append(piece, Head(text)))

Split(text) == SplitFrom(text, <<>>)

\* [genre.strip() for genre in text.split(",")]
RECURSIVE StripAll(_)
StripAll(pieces) ==
    IF pieces = <<>> THEN <<>>
    ELSE <<Strip(Head(pieces))>> \o StripAll(Tail(pieces))

GenreList(text) == StripAll(Split(text))

Digits == {"0", "1", "2", "3", "4", "5", "6", "7", "8", "9"}

DigitValue(ch) ==
    CASE ch = "0" -> 0 [] ch = "1" -> 1 [] ch = "2" -> 2 [] ch = "3" -> 3
      [] ch = "4" -> 4 [] ch = "5" -> 5 [] ch = "6" -> 6 [] ch = "7" -> 7
      [] ch = "8" -> 8 [] ch = "9" -> 9

RECURSIVE DigitsValue(_, _)
DigitsValue(text, acc) ==
    IF text = <<>> THEN acc
    ELSE DigitsValue(Tail(text), acc * 10 + DigitValue(Head(text)))

AllDigits(text) == \A i \in 1..Len(text) : text[i] \in Digits

\* int(text) for texts of digits, blanks and other characters (no sign, no
\* underscore): does it parse, and to what.
IntParses(text) == Strip(text) # <<>> /\ AllDigits(Strip(text))
IntOf(text) == DigitsValue(Strip(text), 0)

\* text.replace(",", ".")
RECURSIVE CommaToDot(_)
CommaToDot(text) ==
    IF text = <<>> THEN <<>>
    ELSE <<IF Head(text) = "," THEN "." ELSE Head(text)>> \o CommaToDot(Tail(text))

Dots(text) == {i \in 1..Len(text) : text[i] = "."}
WithoutDots(text) == SelectSeq(text, LAMBDA ch : ch # ".")

\* float(text.replace(",", ".")) for texts of digits, dots, commas, blanks and
\* other characters: does it parse, and to what.  A float is the pair of its
\* digits read as an integer and the number of digits after the point, with
\* the trailing zeros after the point dropped: 7.5 is <<75, 1>>.
FloatParses(text) ==
    LET t == Strip(CommaToDot(text))
    IN /\ Cardinality(Dots(t)) <= 1
       /\ WithoutDots(t) # <<>>
       /\ AllDigits(WithoutDots(t))

RECURSIVE Normal(_, _)
Normal(mantissa, places) ==
    IF places > 0 /\ mantissa % 10 = 0
    THEN Normal(mantissa \div 10, places - 1) ELSE <<mantissa, places>>

FloatOf(text) ==
    LET t == Strip(CommaToDot(text))
        places == IF Dots(t) = {} THEN 0
                  ELSE Len(t) - (CHOOSE i \in Dots(t) : TRUE)
    IN Normal(DigitsValue(WithoutDots(t), 0), places)

\* ------------------------------------------------------------ catalog store

ObjIds == DOMAIN objects

\* SELECT id FROM genres WHERE name = ?  (0 stands for no row: NULL)
GenreIdOf(name) ==
    IF \E g \in 1..Len(genres) : genres[g] = name
    THEN CHOOSE g \in 1..Len(genres) : genres[g] = name
    ELSE 0

\* Some row of object_genres links the object to the genre row.
Linked(id, g) == \E i \in 1..Len(object_genres) : object_genres[i] = <<id, g>>

\* id IN (SELECT object_id FROM object_genres WHERE genre_id = (SELECT id ...))
InGenreClause(id, name) ==
    GenreIdOf(name) # 0 /\ Linked(id, GenreIdOf(name))

\* id IN (SELECT object_id FROM user_views WHERE user_id = ?), over the rows
\* views of user_views
InViewedClause(views, id, user_id) == <<user_id, id>> \in views

\* A filter that keeps the objects carrying any of the genres (OR).
NarrowByAnyGenre(ids, sel) ==
    IF sel = <<>> THEN ids
    ELSE {id \in ids : \E k \in 1..Len(sel) : InGenreClause(id, sel[k])}

RECURSIVE NarrowByGenres(_, _)
\* The loop that appends one "AND id IN (...)" clause per selected genre.
NarrowByGenres(ids, sel) ==
    IF sel = <<>> THEN ids
    ELSE NarrowByGenres({id \in ids : InGenreClause(id, Head(sel))}, Tail(sel))

\* The WHERE clause shared by count_filtered_objects, get_available_genres
\* and the 'select' branch of button, over the rows views of user_views.
FilteredIdsIn(views, category, sel, viewed, user_id) ==
    LET typed == {id \in ObjIds : objects[id].obj_type = category_map(category)}
        byGenre == NarrowByGenres(typed, sel)
    IN IF viewed THEN {id \in byGenre : InViewedClause(views, id, user_id)}
       ELSE byGenre

\* The WHERE clause without the user_views condition.
FilteredIdsIgnoringViewed(category, sel, viewed, user_id) ==
    FilteredIdsIn(user_views, category, sel, FALSE, user_id)

FilteredIds(category, sel, viewed, user_id) ==
    FilteredIdsIn(user_views, category, sel, viewed, user_id)

\* SELECT COUNT(id) ..., over the rows views of user_views
CountIn(views, category, sel, viewed, user_id) ==
    Cardinality(FilteredIdsIn(views, category, sel, viewed, user_id))

count_filtered_objects(category, sel, viewed, user_id) ==
    CountIn(user_views, category, sel, viewed, user_id)

\* A delete that leaves out "AND object_id = ?".
ClearAllViewsOfUser(views, user_id, object_id) ==
    {uv \in views : uv[1] # user_id}

\* INSERT OR IGNORE INTO user_views (user_id, object_id) VALUES (?, ?)
RecordView(views, user_id, object_id) == views \cup {<<user_id, object_id>>}

\* DELETE FROM user_views WHERE user_id = ? AND object_id = ?
ClearView(views, user_id, object_id) == views \ {<<user_id, object_id>>}

\* id IN (SELECT object_id FROM object_genres og JOIN genres g
\*        ON og.genre_id = g.id WHERE g.name = ?)
InGenreJoinClause(id, name) ==
    \E g \in 1..Len(genres) : genres[g] = name /\ Linked(id, g)

\* The base query of get_available_genres: the ids of the category that pass
\* one join clause per selected genre and, with the flag, the viewed clause.
AvailableBaseIds(category, sel, viewed, user_id) ==
    {id \in ObjIds :
        /\ objects[id].obj_type = category_map(category)
        /\ \A i \in 1..Len(sel) : InGenreJoinClause(id, sel[i])
        /\ viewed => InViewedClause(user_views, id, user_id)}

\* The names of every genre linked to an object of the category, whatever
\* the selection and the flag.
GenresOfCategory(category, sel, viewed, user_id) ==
    {genres[g] : g \in {h \in 1..Len(genres) :
        \E i \in 1..Len(object_genres) :
            /\ object_genres[i][2] = h
            /\ object_genres[i][1] \in AvailableBaseIds(category, <<>>, FALSE, user_id)}}

\* The names get_available_genres returns (DISTINCT, so a set; ORDER BY name
\* only fixes the order of the buttons): the genres rows joined to a row of
\* object_genres whose object_id the base query selects.
get_available_genres(category, sel, viewed, user_id) ==
    {genres[g] : g \in {h \in 1..Len(genres) :
        \E i \in 1..Len(object_genres) :
            /\ object_genres[i][2] = h
            /\ object_genres[i][1] \in AvailableBaseIds(category, sel, viewed, user_id)}}

\* ------------------------------------------------------------ message stack

\* The part of a user's state that the stack and the transport calls thread
\* through one handler: the stack, the displayed handles, the pop calls made.
Thread(u) ==
    [stack |-> message_stack[u], live |-> live[u], pops |-> <<>>,
     undeletable |-> undeletable[u]]

\* Every pop_and_delete_messages call is recorded with the stack before it,
\* the handles it passed to delete_message, and the stack after it.
PopCall(before, deleted, after) ==
    [before |-> before, deleted |-> deleted, after |-> after]

\* A pop that removes the level and skips the first handle of it.
PopSkippingFirst(t) ==
    IF t.stack # <<>>
    THEN LET message_ids == t.stack[Len(t.stack)]
             rest == SubSeq(t.stack, 1, Len(t.stack) - 1)
         IN [t EXCEPT !.stack = rest,
                      !.live = @ \ (SeqToSet(Tail(message_ids)) \ t.undeletable),
                      !.pops = Append(@, PopCall(t.stack, Tail(message_ids), rest))]
    ELSE [t EXCEPT !.pops = Append(@, PopCall(t.stack, <<>>, t.stack))]

\* The handles of a level up to and with the first whose deletion fails.
UntilFailure(message_ids, failing) ==
    IF \E i \in 1..Len(message_ids) : message_ids[i] \in failing
    THEN SubSeq(message_ids, 1,
                CHOOSE i \in 1..Len(message_ids) :
                    /\ message_ids[i] \in failing
                    /\ \A j \in 1..(i - 1) : message_ids[j] \notin failing)
    ELSE message_ids

\* A pop with one try around the whole loop: the level is removed and the
\* first failed deletion ends the loop.
PopStoppingAtFailure(t) ==
    IF t.stack # <<>>
    THEN LET message_ids == UntilFailure(t.stack[Len(t.stack)], t.undeletable)
             rest == SubSeq(t.stack, 1, Len(t.stack) - 1)
         IN [t EXCEPT !.stack = rest,
                      !.live = @ \ (SeqToSet(message_ids) \ t.undeletable),
                      !.pops = Append(@, PopCall(t.stack, message_ids, rest))]
    ELSE [t EXCEPT !.pops = Append(@, PopCall(t.stack, <<>>, t.stack))]

\* The level is popped off the stack and delete_message is called for each
\* of its handles; a call that raises is logged and the loop goes on, the
\* message staying on display.
pop_and_delete_messages(t) ==
    IF t.stack # <<>>
    THEN LET message_ids == t.stack[Len(t.stack)]
             rest == SubSeq(t.stack, 1, Len(t.stack) - 1)
         IN [t EXCEPT !.stack = rest,
                      !.live = @ \ (SeqToSet(message_ids) \ t.undeletable),
                      !.pops = Append(@, PopCall(t.stack, message_ids, rest))]
    ELSE [t EXCEPT !.pops = Append(@, PopCall(t.stack, <<>>, t.stack))]

push_new_message_level(t) == [t EXCEPT !.stack = Append(@, <<>>)]

add_message_to_stack(t, message_id) ==
    IF t.stack # <<>>
    THEN [t EXCEPT !.stack[Len(t.stack)] = Append(@, message_id)]
    ELSE t

\* A drain that pops nothing.
KeepLevels(t) == t

RECURSIVE DrainStack(_)
\* while context.user_data.get('message_stack'): pop_and_delete_messages(...)
DrainStack(t) ==
    IF t.stack # <<>> THEN DrainStack(pop_and_delete_messages(t)) ELSE t

\* The transport hands out a handle that no displayed message of the chat has.
\* (Telegram never reuses a handle; the program never refers to the handle of
\* a deleted message again, so the model hands out the smallest free one.)
FreeHandles(t) == (1..MaxMsg) \ t.live
CanSend(t, n) == Cardinality(FreeHandles(t)) >= n
NewHandle(t) == CHOOSE h \in FreeHandles(t) : \A k \in FreeHandles(t) : h <= k

\* send_message / send_photo / reply_text followed by add_message_to_stack.
SendAndRecord(t) ==
    LET h == NewHandle(t)
    IN add_message_to_stack([t EXCEPT !.live = @ \cup {h}], h)

RECURSIVE SendAndRecordN(_, _)
SendAndRecordN(t, n) ==
    IF n = 0 THEN t ELSE SendAndRecordN(SendAndRecord(t), n - 1)

\* --------------------------------------------------------------- pagination

Min(a, b) == IF a <= b THEN a ELSE b

\* total_pages = (len(results) + PAGE_SIZE - 1) // PAGE_SIZE
TotalPages(results) == (Len(results) + PAGE_SIZE - 1) \div PAGE_SIZE

\* results[start_index:end_index]
PageResults(results, page) ==
    SubSeq(results, page * PAGE_SIZE + 1,
           Min(page * PAGE_SIZE + PAGE_SIZE, Len(results)))

\* The messages send_paginated_results sends: one per entry of the page and
\* the "page n/m" message, or the single "nothing found" message.
PageMessages(results, page) ==
    IF PageResults(results, page) = <<>> THEN 1
    ELSE Len(PageResults(results, page)) + 1

send_paginated_results(t, results, page) ==
    SendAndRecordN(push_new_message_level(t), PageMessages(results, page))

\* The page buttons get_results_keyboard puts under a results page.
get_results_keyboard(page, total_pages) ==
    (IF page > 0 THEN {page - 1} ELSE {})
    \cup (IF page < total_pages - 1 THEN {page + 1} ELSE {})

\* ------------------------------------------------------------ session state

\* user_data['selected_genres'] and user_data['viewed_filter'] are dicts keyed
\* by category, or absent: has says whether the dict exists, at[c] is None
\* when the dict has no key c.
NoDict == [has |-> FALSE, at |-> [c \in Categories |-> None]]
EmptyDict == [has |-> TRUE, at |-> [c \in Categories |-> None]]
DictWith(category, v) ==
    [has |-> TRUE,
     at |-> [c \in Categories |-> IF c = category THEN Some(v) ELSE None]]

\* context.user_data.get(key, {}).get(category, default)
DictGet(d, category, default) ==
    IF d.has /\ d.at[category] # None THEN d.at[category][1] ELSE default

\* The '_viewed_' sentinel of a genre button payload.
ViewedSentinel == <<"_viewed_">>

\* The edit keys of user_data, each absent or holding a value.
NoEditTarget == [object_id |-> None, category |-> None, field |-> None]

\* user_data['new_object']: has says whether the key exists; the fields hold
\* the values stored so far (the flow is linear, so the state of the
\* conversation tells which fields have been stored).
NoNewObject ==
    [has |-> FALSE, type |-> "none", name |-> <<>>, year |-> 0,
     description |-> <<>>, url |-> <<>>, image |-> <<>>,
     admin_rating |-> <<0, 0>>, site_rating |-> <<0, 0>>]

\* dict(row) of a row of objects, as the 'select' branch caches it.
Row(id) == [id |-> id] @@ objects[id]

RECURSIVE RowsOf(_)
RowsOf(ids) ==
    IF ids = <<>> THEN <<>> ELSE <<Row(Head(ids))>> \o RowsOf(Tail(ids))

CachedIds(u) == {results_cache[u][i].id : i \in 1..Len(results_cache[u])}

\* [obj for obj in results if obj['id'] != object_id]
RECURSIVE WithoutId(_, _)
WithoutId(results, object_id) ==
    IF results = <<>> THEN <<>>
    ELSE IF Head(results).id = object_id THEN WithoutId(Tail(results), object_id)
    ELSE <<Head(results)>> \o WithoutId(Tail(results), object_id)

\* The stack kept in one place for every chat (bot_data in place of
\* user_data).
SetThreadShared(u, t) ==
    /\ message_stack' = [v \in Users |-> t.stack]
    /\ live' = [live EXCEPT ![u] = t.live]
    /\ pops' = t.pops

SetThread(u, t) ==
    /\ message_stack' = [message_stack EXCEPT ![u] = t.stack]
    /\ live' = [live EXCEPT ![u] = t.live]
    /\ pops' = t.pops

\* The add conversation waits for a text reply.
InAddTextState(u) ==
    conv_state[u] \in {"NAME", "YEAR", "DESCRIPTION", "URL", "IMAGE",
                       "ADMIN_RATING", "SITE_RATING", "GENRES"}

\* Text messages go to conv_handler first and to edit_conv_handler next:
\* while either conversation waits for a text reply, no other text handler
\* sees the message.
InTextState(u) == InAddTextState(u) \/ edit_state[u] = "EDIT_FIELD"

\* -------------------------------------------------------------------- screens

\* What a screen shows: its kind, its category, the count in its text (the
\* matches of a genre-filter screen, the entries of a results page), the genre
\* buttons and the page buttons of its keyboard, and the page it renders.
ScreenOf(kind, category, count, genre_buttons, page_buttons, page) ==
    [kind |-> kind, category |-> category, count |-> count,
     genre_buttons |-> genre_buttons, page_buttons |-> page_buttons,
     page |-> page]

NoScreen == ScreenOf("none", "none", 0, {}, {}, 0)

\* "Выберите категорию:" with get_recommendations_keyboard
MenuScreen == ScreenOf("menu", "none", 0, {}, {}, 0)

\* get_genres_keyboard: one toggle button per available genre
get_genres_keyboard(category, sel, viewed, user_id) ==
    get_available_genres(category, sel, viewed, user_id)

\* The genre-filter screen: the count in its text and its keyboard.
GenresScreen(category, sel, viewed, user_id) ==
    ScreenOf("genres", category,
             count_filtered_objects(category, sel, viewed, user_id),
             get_genres_keyboard(category, sel, viewed, user_id), {}, 0)

\* The failures left for later operations after a handler has made n.
FailsLeft(n) == IF storage_fails > n THEN storage_fails - n ELSE 0

\* The genre-filter screen when the first fails storage operations of the
\* handler fail: count_filtered_objects catches the error and returns 0,
\* get_available_genres, called next, catches it and returns no genre.
GenresScreenUnder(fails, category, sel, viewed, user_id) ==
    ScreenOf("genres", category,
             IF fails > 0 THEN 0
             ELSE count_filtered_objects(category, sel, viewed, user_id),
             IF fails > 1 THEN {}
             ELSE get_genres_keyboard(category, sel, viewed, user_id), {}, 0)

\* send_paginated_results reads the genres and the mark of every entry of
\* the page with no handler for a storage error: the first read fails when a
\* failure is due and the page has an entry.
RenderFails(results, page) ==
    storage_fails > 0 /\ PageResults(results, page) # <<>>

\* The screen send_paginated_results sends: the entries of the page and the
\* page buttons, or "nothing found".
ResultsScreen(category, results, page) ==
    ScreenOf(IF PageResults(results, page) = <<>> THEN "notfound" ELSE "results",
             category, Len(PageResults(results, page)), {},
             get_results_keyboard(page, TotalPages(results)), page)

\* A button can be pressed only on a bot message that is on display.
HasScreen(u) == live[u] # {}

\* ----------------------------------------------------------------- handlers

\* /start
start(u) ==
    /\ message_stack' = [message_stack EXCEPT ![u] = <<>>]
    /\ selected_genres' = [selected_genres EXCEPT ![u] = NoDict]
    /\ viewed_filter' = [viewed_filter EXCEPT ![u] = NoDict]
    /\ results_cache' = [results_cache EXCEPT ![u] = <<>>]
    /\ results_page' = [results_page EXCEPT ![u] = 0]
    /\ current_category' = [current_category EXCEPT ![u] = "none"]
    /\ new_object' = [new_object EXCEPT ![u] = NoNewObject]
    /\ pops' = <<>>
    /\ last' = [op |-> "start", u |-> u]
    /\ reply' = "welcome"
    /\ raised' = "none"
    /\ edit_target' = [edit_target EXCEPT ![u] = NoEditTarget]
    /\ UNCHANGED <<db, conv_state, live, screen, edit_state, env>>

\* The text "Список рекомендаций"
show_recommendations(u) ==
    /\ ~InTextState(u)
    /\ LET t1 == DrainStack(Thread(u))
       IN /\ CanSend(t1, 1)
          /\ SetThread(u, SendAndRecord(push_new_message_level(t1)))
    /\ last' = [op |-> "show_recommendations", u |-> u]
    /\ reply' = "none"
    /\ screen' = [screen EXCEPT ![u] = MenuScreen]
    /\ raised' = "none"
    /\ UNCHANGED <<env, edit_target, edit_state, db, selected_genres, viewed_filter, results_cache,
                   results_page, current_category, new_object, conv_state>>

\* "Главное меню" handled as /start is: the stack is emptied and none of its
\* handles is deleted.
GoToMainMenuWithoutDrain(u) ==
    /\ ~InTextState(u)
    /\ message_stack' = [message_stack EXCEPT ![u] = <<>>]
    /\ selected_genres' = [selected_genres EXCEPT ![u] = NoDict]
    /\ viewed_filter' = [viewed_filter EXCEPT ![u] = NoDict]
    /\ results_cache' = [results_cache EXCEPT ![u] = <<>>]
    /\ results_page' = [results_page EXCEPT ![u] = 0]
    /\ current_category' = [current_category EXCEPT ![u] = "none"]
    /\ new_object' = [new_object EXCEPT ![u] = NoNewObject]
    /\ edit_target' = [edit_target EXCEPT ![u] = NoEditTarget]
    /\ pops' = <<>>
    /\ last' = [op |-> "go_to_main_menu", u |-> u]
    /\ reply' = "welcome"
    /\ raised' = "none"
    /\ UNCHANGED <<db, conv_state, live, screen, edit_state, env>>

\* The text "Главное меню"
go_to_main_menu(u) ==
    /\ ~InTextState(u)
    /\ LET t1 == DrainStack(Thread(u))
       IN /\ message_stack' = [message_stack EXCEPT ![u] = <<>>]
          /\ live' = [live EXCEPT ![u] = t1.live]
          /\ pops' = t1.pops
    /\ selected_genres' = [selected_genres EXCEPT ![u] = NoDict]
    /\ viewed_filter' = [viewed_filter EXCEPT ![u] = NoDict]
    /\ results_cache' = [results_cache EXCEPT ![u] = <<>>]
    /\ results_page' = [results_page EXCEPT ![u] = 0]
    /\ current_category' = [current_category EXCEPT ![u] = "none"]
    /\ new_object' = [new_object EXCEPT ![u] = NoNewObject]
    /\ last' = [op |-> "go_to_main_menu", u |-> u]
    /\ reply' = "welcome"
    /\ raised' = "none"
    /\ edit_target' = [edit_target EXCEPT ![u] = NoEditTarget]
    /\ UNCHANGED <<db, conv_state, screen, edit_state, env>>

\* button, action == 'category'
ButtonCategory(u, category) ==
    LET sg1 == IF selected_genres[u].has THEN selected_genres[u] ELSE EmptyDict
        sg2 == IF sg1.at[category] = None
               THEN [sg1 EXCEPT !.at[category] = Some(<<>>)] ELSE sg1
        vf1 == IF viewed_filter[u].has THEN viewed_filter[u] ELSE EmptyDict
        vf2 == IF vf1.at[category] = None
               THEN [vf1 EXCEPT !.at[category] = Some(FALSE)] ELSE vf1
        t1 == pop_and_delete_messages(pop_and_delete_messages(Thread(u)))
    IN /\ HasScreen(u)
       /\ CanSend(t1, 1)
       /\ current_category' = [current_category EXCEPT ![u] = category]
       /\ selected_genres' = [selected_genres EXCEPT ![u] = sg2]
       /\ viewed_filter' = [viewed_filter EXCEPT ![u] = vf2]
       /\ SetThread(u, SendAndRecord(push_new_message_level(t1)))
       /\ last' = [op |-> "category", u |-> u]
       /\ reply' = "none"
       /\ screen' = [screen EXCEPT ![u] =
              GenresScreenUnder(storage_fails, category, sg2.at[category][1],
                                vf2.at[category][1], u)]
       /\ storage_fails' = FailsLeft(2)
       /\ raised' = "none"
       /\ UNCHANGED <<undeletable, edit_target, edit_state, db, results_cache,
                      results_page, new_object, conv_state>>

\* A toggle that appends without looking for the genre.
ToggleAlwaysAppends(sel, genre) == Append(sel, genre)

\* The toggle of the 'genre' branch: present -> remove, absent -> append.
ToggleGenre(sel, genre) ==
    IF genre \in SeqToSet(sel) THEN Remove(sel, genre) ELSE Append(sel, genre)

\* The 'genre' branch of button on the two filter dicts: the dicts it leaves
\* and the exception it ends with.
GenreBranch(sg, vf, category, genre) ==
    LET sg1 == IF sg.has THEN sg ELSE DictWith(category, <<>>)
        vf1 == IF vf.has THEN vf ELSE DictWith(category, FALSE)
        \* the subscript [category] the toggle reads
        missing == IF genre = ViewedSentinel THEN vf1.at[category] = None
                   ELSE sg1.at[category] = None
        sg2 == IF genre = ViewedSentinel \/ missing THEN sg1
               ELSE [sg1 EXCEPT !.at[category] = Some(ToggleGenre(@[1], genre))]
        vf2 == IF genre # ViewedSentinel \/ missing THEN vf1
               ELSE [vf1 EXCEPT !.at[category] = Some(~@[1])]
        \* the subscripts [category] read after the toggle
        missingAfter == sg2.at[category] = None \/ vf2.at[category] = None
    IN [sg |-> sg2, vf |-> vf2,
        raised |-> IF missing \/ missingAfter THEN "KeyError" ELSE "none"]

\* button, action == 'genre'
ButtonGenre(u, category, genre) ==
    LET r == GenreBranch(selected_genres[u], viewed_filter[u], category, genre)
    IN /\ HasScreen(u)
       /\ selected_genres' = [selected_genres EXCEPT ![u] = r.sg]
       /\ viewed_filter' = [viewed_filter EXCEPT ![u] = r.vf]
       /\ last' = [op |-> "genre", u |-> u]
       /\ reply' = "none"
       /\ screen' = [screen EXCEPT ![u] =
              IF r.raised # "none" THEN @
              ELSE GenresScreenUnder(storage_fails, category,
                                     r.sg.at[category][1],
                                     r.vf.at[category][1], u)]
       /\ storage_fails' = IF r.raised # "none" THEN storage_fails
                           ELSE FailsLeft(2)
       /\ raised' = r.raised
       /\ pops' = <<>>
       /\ UNCHANGED <<undeletable, edit_target, edit_state, db, message_stack,
                      results_cache, results_page, current_category,
                      new_object, conv_state, live>>

\* button, action == 'select'
ButtonSelect(u, category) ==
    LET sel == DictGet(selected_genres[u], category, <<>>)
        viewed == DictGet(viewed_filter[u], category, FALSE)
        rows == RowsOf(SetToSortedSeq(FilteredIds(category, sel, viewed, u)))
        t1 == pop_and_delete_messages(Thread(u))
    IN /\ HasScreen(u)
       /\ last' = [op |-> "select", u |-> u]
       /\ reply' = "none"
       /\ IF storage_fails > 0
          THEN \* conn.execute raises before anything is stored or popped
               /\ raised' = "OperationalError"
               /\ storage_fails' = storage_fails - 1
               /\ pops' = <<>>
               /\ UNCHANGED <<message_stack, live, results_cache,
                              results_page, screen>>
          ELSE /\ CanSend(t1, PageMessages(rows, 0))
               /\ results_cache' = [results_cache EXCEPT ![u] = rows]
               /\ results_page' = [results_page EXCEPT ![u] = 0]
               /\ SetThread(u, send_paginated_results(t1, rows, 0))
               /\ screen' = [screen EXCEPT ![u] = ResultsScreen(category, rows, 0)]
               /\ raised' = "none"
               /\ UNCHANGED storage_fails
       /\ UNCHANGED <<undeletable, edit_target, edit_state, db, selected_genres,
                      viewed_filter, current_category, new_object, conv_state>>

\* button, action == 'page'
ButtonPage(u, category, page) ==
    LET t1 == pop_and_delete_messages(Thread(u))
    IN /\ HasScreen(u)
       /\ results_page' = [results_page EXCEPT ![u] = page]
       /\ last' = [op |-> "page", u |-> u]
       /\ reply' = "none"
       /\ IF RenderFails(results_cache[u], page)
          THEN \* the level is popped and a new one pushed, nothing is sent
               /\ SetThread(u, push_new_message_level(t1))
               /\ screen' = [screen EXCEPT ![u] = NoScreen]
               /\ raised' = "OperationalError"
               /\ storage_fails' = storage_fails - 1
          ELSE /\ CanSend(t1, PageMessages(results_cache[u], page))
               /\ SetThread(u, send_paginated_results(t1, results_cache[u], page))
               /\ screen' = [screen EXCEPT ![u] =
                      ResultsScreen(category, results_cache[u], page)]
               /\ raised' = "none"
               /\ UNCHANGED storage_fails
       /\ UNCHANGED <<undeletable, edit_target, edit_state, db, selected_genres,
                      viewed_filter, results_cache, current_category,
                      new_object, conv_state>>

\* button, action == 'delete'
ButtonDelete(u, category, object_id) ==
    IF ~is_admin(u)
    THEN /\ HasScreen(u)
         /\ pops' = <<>>
         /\ last' = [op |-> "delete", u |-> u]
         /\ reply' = "none"
         /\ raised' = "none"
         /\ UNCHANGED <<db, session, env>>
    ELSE IF storage_fails > 0
    THEN \* the DELETE raises: nothing is committed, refreshed or popped
         /\ HasScreen(u)
         /\ pops' = <<>>
         /\ last' = [op |-> "delete", u |-> u]
         /\ reply' = "none"
         /\ raised' = "OperationalError"
         /\ storage_fails' = storage_fails - 1
         /\ UNCHANGED <<db, session, undeletable>>
    ELSE LET rows == WithoutId(results_cache[u], object_id)
             t1 == pop_and_delete_messages(Thread(u))
         IN /\ HasScreen(u)
            /\ CanSend(t1, PageMessages(rows, results_page[u]))
            /\ objects' = [id \in ObjIds \ {object_id} |-> objects[id]]
            /\ object_genres' = SelectSeq(object_genres,
                                          LAMBDA og : og[1] # object_id)
            /\ user_views' = {uv \in user_views : uv[2] # object_id}
            /\ results_cache' = [results_cache EXCEPT ![u] = rows]
            /\ SetThread(u, send_paginated_results(t1, rows, results_page[u]))
            /\ last' = [op |-> "delete", u |-> u]
            /\ reply' = "none"
            /\ screen' = [screen EXCEPT ![u] =
                   ResultsScreen(category, rows, results_page[u])]
            /\ raised' = "none"
            /\ UNCHANGED <<env, edit_target, edit_state, genres, selected_genres, viewed_filter, results_page,
                           current_category, new_object, conv_state>>

\* 'view' that sends the whole results page again in place of editing the
\* message of the entry.
ButtonViewRerendering(u, category, object_id) ==
    LET t1 == pop_and_delete_messages(Thread(u))
    IN /\ HasScreen(u)
       /\ CanSend(t1, PageMessages(results_cache[u], results_page[u]))
       /\ user_views' = RecordView(user_views, u, object_id)
       /\ SetThread(u, send_paginated_results(t1, results_cache[u],
                                              results_page[u]))
       /\ last' = [op |-> "view", u |-> u]
       /\ reply' = "none"
       /\ raised' = "none"
       /\ UNCHANGED <<objects, genres, object_genres, env, selected_genres,
                      viewed_filter, results_cache, results_page,
                      current_category, new_object, conv_state, screen,
                      edit_target, edit_state>>

\* button, action == 'view': INSERT OR IGNORE INTO user_views
ButtonView(u, category, object_id) ==
    /\ HasScreen(u)
    /\ user_views' = IF storage_fails > 0 THEN user_views
                     ELSE RecordView(user_views, u, object_id)
    /\ pops' = <<>>
    /\ last' = [op |-> "view", u |-> u]
    /\ reply' = "none"
    /\ raised' = IF storage_fails > 0 THEN "OperationalError" ELSE "none"
    /\ storage_fails' = FailsLeft(1)
    /\ UNCHANGED <<objects, genres, object_genres, session, undeletable>>

\* button, action == 'unview': DELETE FROM user_views
ButtonUnview(u, category, object_id) ==
    /\ HasScreen(u)
    /\ user_views' = IF storage_fails > 0 THEN user_views
                     ELSE ClearView(user_views, u, object_id)
    /\ pops' = <<>>
    /\ last' = [op |-> "unview", u |-> u]
    /\ reply' = "none"
    /\ raised' = IF storage_fails > 0 THEN "OperationalError" ELSE "none"
    /\ storage_fails' = FailsLeft(1)
    /\ UNCHANGED <<objects, genres, object_genres, session, undeletable>>

\* 'back' that pushes and sends the target screen first and pops afterwards.
ButtonBackPushFirst(u, target_menu, category) ==
    LET t1 == SendAndRecord(push_new_message_level(Thread(u)))
    IN /\ HasScreen(u)
       /\ CanSend(Thread(u), 1)
       /\ SetThread(u, pop_and_delete_messages(t1))
       /\ last' = [op |-> "back", u |-> u]
       /\ reply' = "none"
       /\ screen' = [screen EXCEPT ![u] =
              IF target_menu = "recommendations" THEN MenuScreen
              ELSE GenresScreenUnder(storage_fails, category,
                                DictGet(selected_genres[u], category, <<>>),
                                DictGet(viewed_filter[u], category, FALSE), u)]
       /\ storage_fails' = IF target_menu = "genres" THEN FailsLeft(2)
                           ELSE storage_fails
       /\ raised' = "none"
       /\ UNCHANGED <<undeletable, edit_target, edit_state, db, selected_genres,
                      viewed_filter, results_cache, results_page,
                      current_category, new_object, conv_state>>

\* 'back' that rebuilds the genre screen from an empty selection.
ButtonBackUnfiltered(u, target_menu, category) ==
    LET t1 == pop_and_delete_messages(Thread(u))
    IN /\ HasScreen(u)
       /\ IF target_menu \in {"recommendations", "genres"}
          THEN /\ CanSend(t1, 1)
               /\ SetThread(u, SendAndRecord(push_new_message_level(t1)))
          ELSE SetThread(u, t1)
       /\ last' = [op |-> "back", u |-> u]
       /\ reply' = "none"
       /\ screen' = [screen EXCEPT ![u] =
              IF target_menu = "recommendations" THEN MenuScreen
              ELSE IF target_menu = "genres"
              THEN GenresScreenUnder(storage_fails, category, <<>>, FALSE, u)
              ELSE @]
       /\ storage_fails' = IF target_menu = "genres" THEN FailsLeft(2)
                           ELSE storage_fails
       /\ raised' = "none"
       /\ UNCHANGED <<undeletable, edit_target, edit_state, db, selected_genres,
                      viewed_filter, results_cache, results_page,
                      current_category, new_object, conv_state>>

\* button, action == 'back'
ButtonBack(u, target_menu, category) ==
    LET t1 == pop_and_delete_messages(Thread(u))
    IN /\ HasScreen(u)
       /\ IF target_menu \in {"recommendations", "genres"}
          THEN /\ CanSend(t1, 1)
               /\ SetThread(u, SendAndRecord(push_new_message_level(t1)))
          ELSE SetThread(u, t1)
       /\ last' = [op |-> "back", u |-> u]
       /\ reply' = "none"
       /\ screen' = [screen EXCEPT ![u] =
              IF target_menu = "recommendations" THEN MenuScreen
              ELSE IF target_menu = "genres"
              THEN GenresScreenUnder(storage_fails, category,
                                DictGet(selected_genres[u], category, <<>>),
                                DictGet(viewed_filter[u], category, FALSE), u)
              ELSE @]
       /\ storage_fails' = IF target_menu = "genres" THEN FailsLeft(2)
                           ELSE storage_fails
       /\ raised' = "none"
       /\ UNCHANGED <<undeletable, edit_target, edit_state, db, selected_genres,
                      viewed_filter, results_cache, results_page,
                      current_category, new_object, conv_state>>

\* A press with an action of no branch, handled as 'back' is: the level is
\* popped and nothing is sent.
ButtonUnknownPops(u, action) ==
    /\ HasScreen(u)
    /\ action = "add_type" => conv_state[u] # "TYPE"
    /\ action = "edit" => edit_state[u] # "END"
    /\ SetThread(u, pop_and_delete_messages(Thread(u)))
    /\ last' = [op |-> "unknown", u |-> u]
    /\ reply' = "none"
    /\ raised' = "none"
    /\ UNCHANGED <<db, env, selected_genres, viewed_filter, results_cache,
                   results_page, current_category, new_object, conv_state,
                   screen, edit_target, edit_state>>

\* button with an action that no branch of the if/elif chain names: the
\* query is answered and the function ends.  A press reaches button when no
\* conversation takes it: 'add_type' outside the state TYPE, 'edit' while
\* the edit conversation runs.
ButtonUnknown(u, action) ==
    /\ HasScreen(u)
    /\ action = "add_type" => conv_state[u] # "TYPE"
    /\ action = "edit" => edit_state[u] # "END"
    /\ pops' = <<>>
    /\ last' = [op |-> "unknown", u |-> u]
    /\ reply' = "none"
    /\ raised' = "none"
    /\ UNCHANGED <<db, env, session>>

\* button, action == 'admin', parts[1] == 'panel'
ButtonAdminPanel(u) ==
    /\ HasScreen(u)
    /\ screen[u].kind = "menu"
    /\ screen' = [screen EXCEPT ![u] =
           IF is_admin(u) THEN ScreenOf("admin_panel", "none", 0, {}, {}, 0)
           ELSE @]
    /\ pops' = <<>>
    /\ last' = [op |-> "admin_panel", u |-> u]
    /\ reply' = "none"
    /\ raised' = "none"
    /\ UNCHANGED <<env, edit_target, edit_state, db, message_stack, selected_genres, viewed_filter,
                   results_cache, results_page, current_category, new_object,
                   conv_state, live>>

\* button, action == 'admin', parts[1] == 'add_object'.  As the entry point
\* of conv_handler its return value starts the conversation; pressed while
\* the conversation runs, the press reaches the generic handler and the
\* return value is dropped.  The button is on the admin panel, which only a
\* privileged user is shown; anyone else sends the payload without it.
ButtonAddObject(u) ==
    /\ HasScreen(u)
    /\ is_admin(u) => screen[u].kind = "admin_panel"
    /\ screen' = [screen EXCEPT ![u] =
           IF is_admin(u) THEN ScreenOf("add_type", "none", 0, {}, {}, 0)
           ELSE @]
    /\ conv_state' = [conv_state EXCEPT ![u] =
           IF @ = "END" /\ is_admin(u) THEN "TYPE" ELSE @]
    /\ pops' = <<>>
    /\ last' = [op |-> "add_object", u |-> u]
    /\ reply' = "none"
    /\ raised' = "none"
    /\ UNCHANGED <<env, edit_target, edit_state, db, message_stack, selected_genres, viewed_filter,
                   results_cache, results_page, current_category, new_object,
                   live>>

\* add_type: a press of one of the three type buttons
add_type(u, type) ==
    /\ conv_state[u] = "TYPE"
    /\ HasScreen(u)
    /\ screen[u].kind = "add_type"
    /\ new_object' = [new_object EXCEPT ![u] =
           [NoNewObject EXCEPT !.has = TRUE, !.type = type]]
    /\ conv_state' = [conv_state EXCEPT ![u] = "NAME"]
    /\ screen' = [screen EXCEPT ![u] = ScreenOf("add_name", "none", 0, {}, {}, 0)]
    /\ pops' = <<>>
    /\ last' = [op |-> "add_type", u |-> u]
    /\ reply' = "none"
    /\ raised' = "none"
    /\ UNCHANGED <<env, edit_target, edit_state, db, message_stack, selected_genres, viewed_filter,
                   results_cache, results_page, current_category, live>>

\* One text step of the add conversation: with no exception the value is
\* stored and the conversation advances; an exception leaves both as they
\* were.  The right-hand side of the assignment is evaluated before
\* user_data['new_object'] is looked up, so a parse error comes first.
TextStep(u, op, state, next, parses, stored) ==
    LET exc == IF ~parses THEN "ValueError"
               ELSE IF ~new_object[u].has THEN "KeyError" ELSE "none"
    IN /\ conv_state[u] = state
       /\ new_object' = [new_object EXCEPT ![u] = IF exc = "none" THEN stored ELSE @]
       /\ conv_state' = [conv_state EXCEPT ![u] = IF exc = "none" THEN next ELSE @]
       /\ pops' = <<>>
       /\ last' = [op |-> op, u |-> u]
       /\ raised' = exc
       /\ reply' = IF exc = "none" THEN next ELSE "none"
       \* add_site_rating reads the genres of the category for its prompt
       /\ storage_fails' = IF op = "add_site_rating" /\ exc = "none"
                           THEN FailsLeft(1) ELSE storage_fails
       /\ UNCHANGED <<undeletable, edit_target, edit_state, db, message_stack,
                      selected_genres, viewed_filter, results_cache,
                      results_page, current_category, live, screen>>

add_name(u, text) ==
    TextStep(u, "add_name", "NAME", "YEAR", TRUE,
             [new_object[u] EXCEPT !.name = text])

add_year(u, text) ==
    TextStep(u, "add_year", "YEAR", "DESCRIPTION", IntParses(text),
             [new_object[u] EXCEPT !.year = IntOf(text)])

add_description(u, text) ==
    TextStep(u, "add_description", "DESCRIPTION", "URL", TRUE,
             [new_object[u] EXCEPT !.description = text])

add_url(u, text) ==
    TextStep(u, "add_url", "URL", "IMAGE", TRUE,
             [new_object[u] EXCEPT !.url = text])

add_image(u, text) ==
    TextStep(u, "add_image", "IMAGE", "ADMIN_RATING", TRUE,
             [new_object[u] EXCEPT !.image = text])

add_admin_rating(u, text) ==
    TextStep(u, "add_admin_rating", "ADMIN_RATING", "SITE_RATING",
             FloatParses(text),
             [new_object[u] EXCEPT !.admin_rating = FloatOf(text)])

\* get_category_genres only feeds the text of the prompt.
add_site_rating(u, text) ==
    TextStep(u, "add_site_rating", "SITE_RATING", "GENRES",
             FloatParses(text),
             [new_object[u] EXCEPT !.site_rating = FloatOf(text)])

\* INSERT OR IGNORE INTO genres (name) VALUES (?) with every row as a new
\* row, as a table without the UNIQUE constraint would take it.
InsertGenreAlways(table, name) == Append(table, name)

\* INSERT OR IGNORE INTO genres (name) VALUES (?): name is UNIQUE, so the
\* row is added only when no row has the name.
EnsureGenre(table, name) ==
    IF \E g \in 1..Len(table) : table[g] = name THEN table
    ELSE Append(table, name)

\* SELECT id FROM genres WHERE name = ?, fetchone()[0]
SelectGenreId(table, name) ==
    CHOOSE g \in 1..Len(table) :
        /\ table[g] = name
        /\ \A h \in 1..Len(table) : table[h] = name => g <= h

\* The loop of add_genres over the genre names.
RECURSIVE LinkGenres(_, _, _, _)
LinkGenres(table, links, object_db_id, names) ==
    IF names = <<>> THEN [genres |-> table, object_genres |-> links]
    ELSE LET t1 == EnsureGenre(table, Head(names))
             genre_id == SelectGenreId(t1, Head(names))
         IN LinkGenres(t1, Append(links, <<object_db_id, genre_id>>),
                       object_db_id, Tail(names))

\* c.lastrowid of an INSERT into objects: one more than the largest id.
LastRowId(rows) ==
    IF DOMAIN rows = {} THEN 1
    ELSE 1 + CHOOSE id \in DOMAIN rows : \A other \in DOMAIN rows : other <= id

\* The row add_genres inserts for a pending object.
RowOfNewObject(new_obj) ==
    [obj_type |-> new_obj.type, obj_name |-> new_obj.name,
     obj_year |-> new_obj.year, obj_description |-> new_obj.description,
     obj_url |-> new_obj.url, obj_image |-> new_obj.image,
     admin_rating |-> new_obj.admin_rating, site_rating |-> new_obj.site_rating]

\* The writes of add_genres: the tables after the commit.
Commit(rows, table, links, new_obj, names) ==
    LET object_db_id == LastRowId(rows)
        linked == LinkGenres(table, links, object_db_id, names)
    IN [objects |-> [id \in DOMAIN rows \cup {object_db_id} |->
                        IF id = object_db_id THEN RowOfNewObject(new_obj)
                        ELSE rows[id]],
        genres |-> linked.genres,
        object_genres |-> linked.object_genres,
        object_db_id |-> object_db_id]

\* add_genres: the first attempt, and after an OperationalError the schema
\* set-up and one second attempt on a fresh connection; the first
\* connection is closed without a commit, so a failed attempt stores nothing.
add_genres(u, text) ==
    /\ conv_state[u] = "GENRES"
    /\ IF ~new_object[u].has
       THEN /\ raised' = "KeyError"
            /\ reply' = "none"
            /\ UNCHANGED <<db, new_object, conv_state, storage_fails>>
       ELSE LET done == Commit(objects, genres, object_genres,
                               new_object[u], GenreList(text))
            IN /\ IF storage_fails > 1
                  THEN /\ reply' = "add_failed"
                       /\ UNCHANGED <<objects, genres, object_genres>>
                  ELSE /\ Cardinality(ObjIds) < MaxObjects
                       /\ objects' = done.objects
                       /\ genres' = done.genres
                       /\ object_genres' = done.object_genres
                       /\ reply' = "added"
               /\ storage_fails' = FailsLeft(2)
               /\ new_object' = [new_object EXCEPT ![u] = NoNewObject]
               /\ conv_state' = [conv_state EXCEPT ![u] = "END"]
               /\ raised' = "none"
               /\ UNCHANGED user_views
    /\ pops' = <<>>
    /\ last' = [op |-> "add_genres", u |-> u]
    /\ UNCHANGED <<undeletable, edit_target, edit_state, message_stack,
                   selected_genres, viewed_filter, results_cache, results_page,
                   current_category, live, screen>>

\* /cancel, the fallback of the add conversation
cancel(u) ==
    /\ conv_state[u] # "END"
    /\ conv_state' = [conv_state EXCEPT ![u] = "END"]
    /\ pops' = <<>>
    /\ last' = [op |-> "cancel", u |-> u]
    /\ reply' = "cancelled"
    /\ raised' = "none"
    /\ UNCHANGED <<env, edit_target, edit_state, db, message_stack, selected_genres, viewed_filter,
                   results_cache, results_page, current_category, new_object,
                   live, screen>>

\* edit_object: a press of the edit button of a results message, the entry
\* point of edit_conv_handler
edit_object(u, category, object_id) ==
    /\ edit_state[u] = "END"
    /\ HasScreen(u)
    /\ screen[u].kind = "results"
    /\ IF is_admin(u)
       THEN /\ edit_target' = [edit_target EXCEPT
                   ![u].object_id = Some(object_id),
                   ![u].category = Some(category)]
            /\ edit_state' = [edit_state EXCEPT ![u] = "EDIT_CHOICE"]
            /\ screen' = [screen EXCEPT ![u] =
                   ScreenOf("edit_choice", category, 0, {}, {}, 0)]
       ELSE UNCHANGED <<edit_target, edit_state, screen>>
    /\ pops' = <<>>
    /\ last' = [op |-> "edit_object", u |-> u]
    /\ reply' = "none"
    /\ raised' = "none"
    /\ UNCHANGED <<db, env, message_stack, selected_genres, viewed_filter,
                   results_cache, results_page, current_category, new_object,
                   conv_state, live>>

\* edit_choice: a press of a field button.  The field is stored before the
\* object is read; obj[field] raises for a field that is no column of
\* objects, and for an object that is no longer stored.
edit_choice(u, field) ==
    LET exc == IF edit_target[u].object_id = None THEN "KeyError"
               ELSE IF storage_fails > 0 THEN "OperationalError"
               ELSE IF edit_target[u].object_id[1] \notin ObjIds THEN "TypeError"
               ELSE IF field = "genres" THEN "IndexError"
               ELSE "none"
    IN /\ edit_state[u] = "EDIT_CHOICE"
       /\ HasScreen(u)
       /\ screen[u].kind = "edit_choice"
       /\ edit_target' = [edit_target EXCEPT ![u].field = Some(field)]
       /\ storage_fails' = IF exc = "OperationalError"
                           THEN storage_fails - 1 ELSE storage_fails
       /\ edit_state' = [edit_state EXCEPT ![u] =
              IF exc = "none" THEN "EDIT_FIELD" ELSE @]
       /\ screen' = [screen EXCEPT ![u] =
              IF exc = "none"
              THEN ScreenOf("edit_prompt", screen[u].category, 0, {}, {}, 0)
              ELSE @]
       /\ pops' = <<>>
       /\ last' = [op |-> "edit_choice", u |-> u]
       /\ reply' = "none"
       /\ raised' = exc
       /\ UNCHANGED <<db, undeletable, message_stack, selected_genres,
                      viewed_filter, results_cache, results_page,
                      current_category, new_object, conv_state, live>>

\* The value SQLite stores for a text bound to a column: obj_year is an
\* INTEGER column and takes a text of digits as the number; every other text
\* is stored as it is.  (Texts of digits, blanks and letters.)
ColumnValue(field, text) ==
    IF field = "obj_year" /\ IntParses(text) THEN IntOf(text) ELSE text

\* A refresh that leaves the cache as it was.
RefreshNothing(results, object_id, field, new_value) == results

\* The rows of the cache after edit_field's refresh: the first row with the
\* id takes the text as it was typed.
RECURSIVE RefreshCache(_, _, _, _)
RefreshCache(results, object_id, field, new_value) ==
    IF results = <<>> THEN <<>>
    ELSE IF Head(results).id = object_id
    THEN <<[Head(results) EXCEPT ![field] = new_value]>> \o Tail(results)
    ELSE <<Head(results)>> \o RefreshCache(Tail(results), object_id, field, new_value)

\* The writes of edit_field for the field 'genres': the links of the object
\* are replaced.
EditGenres(table, links, object_id, names) ==
    LinkGenres(table, SelectSeq(links, LAMBDA og : og[1] # object_id),
               object_id, names)

\* edit_field: the text reply with the new value
edit_field(u, new_value) ==
    LET target == edit_target[u]
        exc == IF target.object_id = None \/ target.field = None THEN "KeyError"
               ELSE IF storage_fails > 0 THEN "OperationalError"
               ELSE "none"
        object_id == target.object_id[1]
        field == target.field[1]
        category == target.category[1]
        rows == IF field = "genres" THEN results_cache[u]
                ELSE RefreshCache(results_cache[u], object_id, field, new_value)
        t1 == pop_and_delete_messages(Thread(u))
        linked == EditGenres(genres, object_genres, object_id, GenreList(new_value))
    IN /\ edit_state[u] = "EDIT_FIELD"
       /\ ~InAddTextState(u)
       /\ last' = [op |-> "edit_field", u |-> u]
       /\ raised' = exc
       /\ reply' = IF exc = "none" THEN "updated" ELSE "none"
       /\ IF exc # "none"
          THEN /\ storage_fails' = IF exc = "OperationalError"
                                   THEN storage_fails - 1 ELSE storage_fails
               /\ pops' = <<>>
               /\ UNCHANGED <<db, session, undeletable>>
          ELSE /\ CanSend(t1, PageMessages(rows, results_page[u]))
               /\ IF field = "genres"
                  THEN /\ genres' = linked.genres
                       /\ object_genres' = linked.object_genres
                       /\ UNCHANGED objects
                  ELSE /\ objects' = IF object_id \in ObjIds
                                     THEN [objects EXCEPT ![object_id][field] =
                                              ColumnValue(field, new_value)]
                                     ELSE objects
                       /\ UNCHANGED <<genres, object_genres>>
               /\ results_cache' = [results_cache EXCEPT ![u] = rows]
               /\ SetThread(u, send_paginated_results(t1, rows, results_page[u]))
               /\ screen' = [screen EXCEPT ![u] =
                      ResultsScreen(category, rows, results_page[u])]
               /\ edit_state' = [edit_state EXCEPT ![u] = "END"]
               /\ UNCHANGED <<user_views, env, selected_genres, viewed_filter,
                              results_page, current_category, new_object,
                              conv_state, edit_target>>

\* A cancel that pops the level and sends nothing.
CancelEditWithoutPage(u) ==
    /\ edit_state[u] # "END"
    /\ HasScreen(u)
    /\ screen[u].kind = "edit_choice"
    /\ SetThread(u, pop_and_delete_messages(Thread(u)))
    /\ edit_state' = [edit_state EXCEPT ![u] = "END"]
    /\ last' = [op |-> "cancel_edit", u |-> u]
    /\ reply' = "none"
    /\ raised' = "none"
    /\ UNCHANGED <<db, env, selected_genres, viewed_filter, results_cache,
                   results_page, current_category, new_object, conv_state,
                   edit_target, screen>>

\* cancel_edit: a press of the back button of the field keyboard, the
\* fallback of edit_conv_handler.  The level is popped before the category
\* is looked up and before the page is read and sent again.
cancel_edit(u) ==
    LET t1 == pop_and_delete_messages(Thread(u))
        page == PageResults(results_cache[u], results_page[u])
        exc == IF edit_target[u].category = None THEN "KeyError"
               ELSE IF storage_fails > 0 /\ page # <<>> THEN "OperationalError"
               ELSE "none"
    IN /\ edit_state[u] # "END"
       /\ HasScreen(u)
       /\ screen[u].kind = "edit_choice"
       /\ last' = [op |-> "cancel_edit", u |-> u]
       /\ reply' = "none"
       /\ raised' = exc
       /\ IF exc = "KeyError"
          THEN /\ SetThread(u, t1)
               /\ UNCHANGED <<screen, edit_state, storage_fails>>
          ELSE IF exc = "OperationalError"
          THEN /\ SetThread(u, push_new_message_level(t1))
               /\ storage_fails' = storage_fails - 1
               /\ UNCHANGED <<screen, edit_state>>
          ELSE /\ CanSend(t1, PageMessages(results_cache[u], results_page[u]))
               /\ SetThread(u, send_paginated_results(t1, results_cache[u],
                                                      results_page[u]))
               /\ screen' = [screen EXCEPT ![u] =
                      ResultsScreen(edit_target[u].category[1],
                                    results_cache[u], results_page[u])]
               /\ edit_state' = [edit_state EXCEPT ![u] = "END"]
               /\ UNCHANGED storage_fails
       /\ UNCHANGED <<db, undeletable, selected_genres, viewed_filter,
                      results_cache, results_page, current_category,
                      new_object, conv_state, edit_target>>

\* ------------------------------------------------------------ initial states

\* A row of objects as add_genres inserts it.
ObjectRow(type) ==
    [obj_type |-> type, obj_name |-> <<"X">>, obj_year |-> 1999,
     obj_description |-> <<"t">>, obj_url |-> <<"u">>, obj_image |-> <<"i">>,
     admin_rating |-> <<75, 1>>, site_rating |-> <<82, 1>>]

\* The session of every user after construction: user_data is empty and no
\* conversation is running.
InitSessions ==
    /\ message_stack = [u \in Users |-> <<>>]
    /\ selected_genres = [u \in Users |-> NoDict]
    /\ viewed_filter = [u \in Users |-> NoDict]
    /\ results_cache = [u \in Users |-> <<>>]
    /\ results_page = [u \in Users |-> 0]
    /\ current_category = [u \in Users |-> "none"]
    /\ new_object = [u \in Users |-> NoNewObject]
    /\ conv_state = [u \in Users |-> "END"]
    /\ edit_target = [u \in Users |-> NoEditTarget]
    /\ edit_state = [u \in Users |-> "END"]
    /\ storage_fails = 0
    /\ undeletable = [u \in Users |-> {}]
    /\ reply = "none"
    /\ live = [u \in Users |-> {}]
    /\ screen = [u \in Users |-> NoScreen]
    /\ pops = <<>>
    /\ raised = "none"
    /\ last = [op |-> "none", u |-> 0]

\* The catalog of the navigation specification: NavObjects films, enough for
\* a second results page; all but the first carry genre "d", the first two
\* carry genre "c".
InitNavCatalog ==
    /\ objects = [id \in 1..NavObjects |-> ObjectRow("film")]
    /\ genres = <<GenreD, GenreC>>
    /\ object_genres = [i \in 1..(NavObjects - 1) |-> <<i + 1, 1>>]
                       \o << <<1, 2>>, <<2, 2>> >>
    /\ user_views = {}

Init == InitNavCatalog /\ InitSessions

\* The catalog of the filter and store specifications: StoreObjects objects,
\* every third a book and the others films; all carry genre "d", the odd
\* ones genre "c" too.
InitStoreCatalog ==
    /\ objects = [id \in 1..StoreObjects |->
                    ObjectRow(IF id % 3 = 0 THEN "kniga" ELSE "film")]
    /\ genres = <<GenreD, GenreC>>
    /\ object_genres = [i \in 1..StoreObjects |-> <<i, 1>>]
                       \o [i \in 1..((StoreObjects + 1) \div 2) |-> <<2 * i - 1, 2>>]
    /\ user_views = {}

InitStore == InitStoreCatalog /\ InitSessions

\* The navigation specification: one privileged user, who presses one
\* category and toggles one genre, and deletes only while more than
\* NavMinObjects objects are left.
NavUsers == {1}
NavCategory == "films"

Next ==
    \/ \E u \in NavUsers : start(u)
    \/ \E u \in NavUsers : show_recommendations(u)
    \/ \E u \in NavUsers : go_to_main_menu(u)
    \/ \E u \in NavUsers : ButtonCategory(u, NavCategory)
    \/ \E u \in NavUsers : ButtonGenre(u, NavCategory, GenreD)
    \/ \E u \in NavUsers : ButtonSelect(u, NavCategory)
    \/ \E u \in NavUsers, page \in 0..MaxPage : ButtonPage(u, NavCategory, page)
    \/ \E u \in NavUsers : \E id \in CachedIds(u) :
          /\ Cardinality(ObjIds) > NavMinObjects
          /\ ButtonDelete(u, NavCategory, id)
    \/ \E u \in NavUsers, target \in {"recommendations", "genres"} :
          ButtonBack(u, target, NavCategory)

Spec == Init /\ [][Next]_vars

\* The filter specification: one user, every payload category, both genres
\* and the viewed toggle, and the session wipes.
FilterUsers == {3}

NextFilter ==
    \/ \E u \in FilterUsers : start(u)
    \/ \E u \in FilterUsers : show_recommendations(u)
    \/ \E u \in FilterUsers : go_to_main_menu(u)
    \/ \E u \in FilterUsers, category \in PayloadCategories :
          ButtonCategory(u, category)
    \/ \E u \in FilterUsers, category \in PayloadCategories,
          genre \in GenreNames \cup {ViewedSentinel} :
          ButtonGenre(u, category, genre)
    \/ \E u \in FilterUsers : ButtonBack(u, "recommendations", NavCategory)

SpecFilter == InitStore /\ [][NextFilter]_vars

\* The store specification: a privileged user, who deletes the entries of
\* its results page, and an ordinary user, who views and unviews the entries
\* of its own results page and filters by genre "c" and the viewed flag.
StoreUsers == {1, 3}
StoreViewers == {3}

NextStore ==
    \/ \E u \in StoreUsers : show_recommendations(u)
    \/ \E u \in StoreViewers : ButtonCategory(u, NavCategory)
    \/ \E u \in StoreViewers, genre \in {GenreC, ViewedSentinel} :
          ButtonGenre(u, NavCategory, genre)
    \/ \E u \in StoreUsers : ButtonSelect(u, NavCategory)
    \/ \E u \in StoreViewers : \E id \in CachedIds(u) : ButtonView(u, NavCategory, id)
    \/ \E u \in StoreViewers : \E id \in CachedIds(u) : ButtonUnview(u, NavCategory, id)
    \/ \E u \in StoreUsers : \E id \in CachedIds(u) : ButtonDelete(u, NavCategory, id)

SpecStore == InitStore /\ [][NextStore]_vars

\* The data-entry specification: two privileged users, each entering
\* objects through the add conversation, their steps interleaved, over a
\* storage that starts empty.
InitAddCatalog ==
    /\ objects = <<>>
    /\ genres = <<>>
    /\ object_genres = <<>>
    /\ user_views = {}

InitAdd == InitAddCatalog /\ InitSessions

AddUsers == {1, 2}
AddTypes == {"film"}
NameTexts == {<<"X">>}
YearTexts == {<<"1", "9", "9", "9">>, <<"x">>}
FreeTexts == {<<"t">>}
AdminRatingTexts == {<<"7", ",", "5">>, <<"x">>}
SiteRatingTexts == {<<"8", ".", "2">>, <<"7", ".", "5", ".">>}
GenreTexts ==
    {<<"d">>, <<"d", ",", " ", "c">>, <<"c", " ", ",", "d">>, <<"d", ",", "d">>}

NextAdd ==
    \/ \E u \in AddUsers : show_recommendations(u)
    \/ \E u \in AddUsers : ButtonAdminPanel(u)
    \/ \E u \in AddUsers : ButtonAddObject(u)
    \/ \E u \in AddUsers, type \in AddTypes : add_type(u, type)
    \/ \E u \in AddUsers, text \in NameTexts : add_name(u, text)
    \/ \E u \in AddUsers, text \in YearTexts : add_year(u, text)
    \/ \E u \in AddUsers, text \in FreeTexts : add_description(u, text)
    \/ \E u \in AddUsers, text \in FreeTexts : add_url(u, text)
    \/ \E u \in AddUsers, text \in FreeTexts : add_image(u, text)
    \/ \E u \in AddUsers, text \in AdminRatingTexts : add_admin_rating(u, text)
    \/ \E u \in AddUsers, text \in SiteRatingTexts : add_site_rating(u, text)
    \/ \E u \in AddUsers, text \in GenreTexts : add_genres(u, text)
    \/ \E u \in AddUsers : cancel(u)

SpecAdd == InitAdd /\ [][NextAdd]_vars

\* The reset specification: one privileged user, who browses a category,
\* starts the add conversation and the edit conversation, and sends /start
\* and "main menu" at any point of them.
ResetUsers == {1}
EditFields == {"obj_name", "genres"}
EditText == <<"Y">>
EditTexts == {EditText}

NextReset ==
    \/ \E u \in ResetUsers : start(u)
    \/ \E u \in ResetUsers : show_recommendations(u)
    \/ \E u \in ResetUsers : go_to_main_menu(u)
    \/ \E u \in ResetUsers : ButtonCategory(u, NavCategory)
    \/ \E u \in ResetUsers : ButtonSelect(u, NavCategory)
    \/ \E u \in ResetUsers : ButtonAdminPanel(u)
    \/ \E u \in ResetUsers : ButtonAddObject(u)
    \/ \E u \in ResetUsers, type \in AddTypes : add_type(u, type)
    \/ \E u \in ResetUsers, text \in NameTexts : add_name(u, text)
    \/ \E u \in ResetUsers : cancel(u)
    \/ \E u \in ResetUsers : \E id \in CachedIds(u) : edit_object(u, NavCategory, id)
    \/ \E u \in ResetUsers, field \in EditFields : edit_choice(u, field)
    \/ \E u \in ResetUsers, text \in EditTexts : edit_field(u, text)
    \/ \E u \in ResetUsers : cancel_edit(u)

SpecReset == InitStore /\ [][NextReset]_vars

\* The privilege specification: a privileged and an ordinary user, each
\* sending every admin-only payload and every step of the two conversations
\* that its conversation state lets through.
GuardUsers == {1, 3}

NextGuard ==
    \/ \E u \in GuardUsers : show_recommendations(u)
    \/ \E u \in GuardUsers : ButtonSelect(u, NavCategory)
    \/ \E u \in GuardUsers : ButtonAdminPanel(u)
    \/ \E u \in GuardUsers : ButtonAddObject(u)
    \/ \E u \in GuardUsers, type \in AddTypes : add_type(u, type)
    \/ \E u \in GuardUsers, text \in NameTexts : add_name(u, text)
    \/ \E u \in GuardUsers : cancel(u)
    \/ \E u \in GuardUsers : \E id \in CachedIds(u) : ButtonDelete(u, NavCategory, id)
    \/ \E u \in GuardUsers : \E id \in CachedIds(u) : edit_object(u, NavCategory, id)
    \/ \E u \in GuardUsers, field \in EditFields : edit_choice(u, field)
    \/ \E u \in GuardUsers, text \in EditTexts : edit_field(u, text)
    \/ \E u \in GuardUsers : cancel_edit(u)

SpecGuard == InitStore /\ [][NextGuard]_vars

\* The storage stops answering: the coming n storage operations raise
\* sqlite3.OperationalError (a locked file, a missing table).
StorageOutage(n) ==
    /\ storage_fails = 0
    /\ storage_fails' = n
    /\ pops' = <<>>
    /\ last' = [op |-> "outage", u |-> 0]
    /\ reply' = "none"
    /\ raised' = "none"
    /\ UNCHANGED <<db, session, undeletable>>

\* The outage specification: one privileged user, who browses, views,
\* deletes, edits and adds while the storage fails for up to MaxFailures
\* operations in a row.  The user runs one conversation at a time, and adds
\* only while the row ids stay below MaxObjects.
FailUsers == {1}
FailGenreTexts == {<<"d">>}

NextFail ==
    \/ \E n \in 1..MaxFailures : StorageOutage(n)
    \/ \E u \in FailUsers : show_recommendations(u)
    \/ \E u \in FailUsers : ButtonCategory(u, NavCategory)
    \/ \E u \in FailUsers : ButtonSelect(u, NavCategory)
    \/ \E u \in FailUsers : \E id \in CachedIds(u) : ButtonView(u, NavCategory, id)
    \/ \E u \in FailUsers : \E id \in CachedIds(u) : ButtonUnview(u, NavCategory, id)
    \/ \E u \in FailUsers : \E id \in CachedIds(u) : ButtonDelete(u, NavCategory, id)
    \/ \E u \in FailUsers : \E id \in CachedIds(u) :
          /\ conv_state[u] = "END"
          /\ edit_object(u, NavCategory, id)
    \/ \E u \in FailUsers : edit_choice(u, "obj_name")
    \/ \E u \in FailUsers, text \in EditTexts : edit_field(u, text)
    \/ \E u \in FailUsers : ButtonAdminPanel(u)
    \/ \E u \in FailUsers : edit_state[u] = "END" /\ ButtonAddObject(u)
    \/ \E u \in FailUsers, type \in AddTypes : add_type(u, type)
    \/ \E u \in FailUsers, text \in NameTexts : add_name(u, text)
    \/ \E u \in FailUsers : add_year(u, <<"1", "9", "9", "9">>)
    \/ \E u \in FailUsers, text \in FreeTexts : add_description(u, text)
    \/ \E u \in FailUsers, text \in FreeTexts : add_url(u, text)
    \/ \E u \in FailUsers, text \in FreeTexts : add_image(u, text)
    \/ \E u \in FailUsers : add_admin_rating(u, <<"7", ",", "5">>)
    \/ \E u \in FailUsers : add_site_rating(u, <<"8", ".", "2">>)
    \/ \E u \in FailUsers, text \in FailGenreTexts :
          /\ \A id \in ObjIds : id < MaxObjects
          /\ add_genres(u, text)

SpecFail == InitStore /\ [][NextFail]_vars

\* The browsing specification: one privileged user over the navigation
\* catalog, who filters films by genre "d", applies the filter, turns the
\* pages, marks and unmarks the first entry of the results, deletes while
\* more than NavMinObjects objects are left, and goes back.
KeepUsers == {1}

NextKeep ==
    \/ \E u \in KeepUsers : show_recommendations(u)
    \/ \E u \in KeepUsers : ButtonCategory(u, NavCategory)
    \/ \E u \in KeepUsers : ButtonGenre(u, NavCategory, GenreD)
    \/ \E u \in KeepUsers : ButtonSelect(u, NavCategory)
    \/ \E u \in KeepUsers, page \in 0..MaxPage : ButtonPage(u, NavCategory, page)
    \/ \E u \in KeepUsers :
          /\ results_cache[u] # <<>>
          /\ ButtonView(u, NavCategory, Head(results_cache[u]).id)
    \/ \E u \in KeepUsers :
          /\ results_cache[u] # <<>>
          /\ ButtonUnview(u, NavCategory, Head(results_cache[u]).id)
    \/ \E u \in KeepUsers : \E id \in CachedIds(u) :
          /\ Cardinality(ObjIds) > NavMinObjects
          /\ ButtonDelete(u, NavCategory, id)
    \/ \E u \in KeepUsers, target \in {"recommendations", "genres"} :
          ButtonBack(u, target, NavCategory)

SpecKeep == Init /\ [][NextKeep]_vars

\* delete_message starts to fail for a displayed message of the user (the
\* message has become too old for the bot to delete it).
DeletionStartsFailing(u, h) ==
    /\ h \in live[u] \ undeletable[u]
    /\ Cardinality(undeletable[u]) < MaxUndeletable
    /\ undeletable' = [undeletable EXCEPT ![u] = @ \cup {h}]
    /\ pops' = <<>>
    /\ last' = [op |-> "expire", u |-> 0]
    /\ reply' = "none"
    /\ raised' = "none"
    /\ UNCHANGED <<db, session, storage_fails>>

\* The transport specification: one user, who browses the store catalog
\* while the deletion of up to MaxUndeletable displayed messages fails.
ExpireUsers == {3}

NextExpire ==
    \/ \E u \in ExpireUsers, h \in 1..MaxMsg : DeletionStartsFailing(u, h)
    \/ \E u \in ExpireUsers : show_recommendations(u)
    \/ \E u \in ExpireUsers : go_to_main_menu(u)
    \/ \E u \in ExpireUsers : ButtonCategory(u, NavCategory)
    \/ \E u \in ExpireUsers : ButtonSelect(u, NavCategory)
    \/ \E u \in ExpireUsers : ButtonPage(u, NavCategory, 0)
    \/ \E u \in ExpireUsers, target \in {"recommendations", "genres"} :
          ButtonBack(u, target, NavCategory)

SpecExpire == InitStore /\ [][NextExpire]_vars

\* The stray-press specification: one privileged user, who browses, opens
\* the add and the edit conversation, and presses buttons whose action no
\* branch of button names.
IgnoreUsers == {1}
UnknownActions == {"noop", "add_type", "edit"}

NextIgnore ==
    \/ \E u \in IgnoreUsers : show_recommendations(u)
    \/ \E u \in IgnoreUsers : ButtonCategory(u, NavCategory)
    \/ \E u \in IgnoreUsers : ButtonSelect(u, NavCategory)
    \/ \E u \in IgnoreUsers : ButtonAdminPanel(u)
    \/ \E u \in IgnoreUsers : ButtonAddObject(u)
    \/ \E u \in IgnoreUsers, type \in AddTypes : add_type(u, type)
    \/ \E u \in IgnoreUsers : \E id \in CachedIds(u) : edit_object(u, NavCategory, id)
    \/ \E u \in IgnoreUsers, field \in EditFields : edit_choice(u, field)
    \/ \E u \in IgnoreUsers : cancel_edit(u)
    \/ \E u \in IgnoreUsers, action \in UnknownActions : ButtonUnknown(u, action)

SpecIgnore == InitStore /\ [][NextIgnore]_vars

\* The transition specification: one privileged user, who takes every
\* navigation transition over the store catalog: category, select, page,
\* delete, back, and the commit and the cancel of the edit conversation.
TransitUsers == {1}

NextTransit ==
    \/ \E u \in TransitUsers : show_recommendations(u)
    \/ \E u \in TransitUsers : ButtonCategory(u, NavCategory)
    \/ \E u \in TransitUsers : ButtonSelect(u, NavCategory)
    \/ \E u \in TransitUsers, page \in 0..1 : ButtonPage(u, NavCategory, page)
    \/ \E u \in TransitUsers : \E id \in CachedIds(u) : ButtonDelete(u, NavCategory, id)
    \/ \E u \in TransitUsers, target \in {"recommendations", "genres"} :
          ButtonBack(u, target, NavCategory)
    \/ \E u \in TransitUsers : \E id \in CachedIds(u) : edit_object(u, NavCategory, id)
    \/ \E u \in TransitUsers, field \in EditFields : edit_choice(u, field)
    \/ \E u \in TransitUsers, text \in EditTexts : edit_field(u, text)
    \/ \E u \in TransitUsers : cancel_edit(u)

SpecTransit == InitStore /\ [][NextTransit]_vars

\* The edit specification: one privileged user, who applies the filter and
\* edits the first stored object through the edit conversation, choosing
\* any of the fields the field keyboard of edit_object offers.
EditUsers == {1}
EditObject == 1
OfferedFields ==
    {"obj_name", "obj_year", "obj_description", "obj_url", "obj_image",
     "admin_rating", "site_rating", "genres"}

NextEdit ==
    \/ \E u \in EditUsers : show_recommendations(u)
    \/ \E u \in EditUsers : ButtonSelect(u, NavCategory)
    \/ \E u \in EditUsers : \E id \in CachedIds(u) \cap {EditObject} :
          edit_object(u, NavCategory, id)
    \/ \E u \in EditUsers, field \in OfferedFields : edit_choice(u, field)
    \/ \E u \in EditUsers, text \in EditTexts : edit_field(u, text)
    \/ \E u \in EditUsers : cancel_edit(u)

SpecEdit == InitStore /\ [][NextEdit]_vars

\* The depth specification: the navigation transitions of the transition
\* specification together with /start and "main menu" at any point.
NextDepth ==
    \/ NextTransit
    \/ \E u \in TransitUsers : start(u)
    \/ \E u \in TransitUsers : go_to_main_menu(u)

SpecDepth == InitStore /\ [][NextDepth]_vars

\* ------------------------------------------------------------------ claims

\* The handles recorded in the levels of a stack.
RECURSIVE HandlesOf(_)
HandlesOf(stack) ==
    IF stack = <<>> THEN {} ELSE SeqToSet(Head(stack)) \cup HandlesOf(Tail(stack))

Front(stack) == SubSeq(stack, 1, Len(stack) - 1)
Top(stack) == stack[Len(stack)]

\* C1, as stated: every pop_and_delete_messages call leaves the stack exactly
\* one level shorter and passes to delete_message exactly the handles of the
\* removed top level.
C1_PopAlwaysShortens ==
    \A i \in 1..Len(pops) :
        /\ Len(pops[i].after) = Len(pops[i].before) - 1
        /\ pops[i].deleted = Top(pops[i].before)

\* C1, amended: a pop_and_delete_messages call on a non-empty stack removes
\* exactly the top level and passes to delete_message exactly the handles of
\* that level, none of a level beneath; on an empty stack it changes nothing
\* and deletes nothing.
C1_PopRemovesTopLevel ==
    \A i \in 1..Len(pops) :
        IF pops[i].before # <<>>
        THEN /\ pops[i].after = Front(pops[i].before)
             /\ pops[i].deleted = Top(pops[i].before)
             /\ SeqToSet(pops[i].deleted) \cap HandlesOf(pops[i].after) = {}
        ELSE /\ pops[i].after = <<>>
             /\ pops[i].deleted = <<>>

\* A pop has removed a results level of several messages.
C1_Witness ==
    \E i \in 1..Len(pops) :
        /\ pops[i].before # <<>>
        /\ Len(pops[i].deleted) >= 2
        /\ Len(pops[i].after) = Len(pops[i].before) - 1

PageInRange(u) ==
    results_cache[u] # <<>> => results_page[u] * PAGE_SIZE < Len(results_cache[u])

\* C2: in every reachable session state, a non-empty results cache has
\* results_page * PAGE_SIZE < len(results_cache).
C2_PageWithinCache == \A u \in Users : PageInRange(u)

\* C3: after a page button press, results_page lies in [0, total_pages - 1]
\* of the cached results.
C3_PageNavBounded ==
    \A u \in Users :
        (last = [op |-> "page", u |-> u] /\ results_cache[u] # <<>>)
            => results_page[u] \in 0..(TotalPages(results_cache[u]) - 1)

\* C4: a delete by a privileged user from an in-range results page leaves the
\* page index within [0, total_pages - 1] of the shrunken cache.
C4_DeleteClampsPage ==
    [][\A u \in Users :
        ((\E id \in CachedIds(u) : ButtonDelete(u, NavCategory, id))
            /\ is_admin(u)
            /\ results_page[u] < TotalPages(results_cache[u])
            /\ results_cache'[u] # <<>>)
        => results_page'[u] < TotalPages(results_cache'[u])]_vars

\* C5: a genre or viewed toggle never fails with a missing key.
C5_ToggleNeverMissingKey == last.op = "genre" => raised # "KeyError"

\* The genre list and the viewed flag a filter dict holds for a category, with
\* the defaults of a key not yet touched.
SelectedSet(sg, category) == SeqToSet(DictGet(sg, category, <<>>))
ViewedFlag(vf, category) == DictGet(vf, category, FALSE)

\* C6: in every reachable session state, for every category and genre, two
\* consecutive genre toggles of that genre leave the set of selected names of
\* every category and the viewed flag of every category as before the first.
C6_ToggleTwiceRestores ==
    \A u \in Users, category \in PayloadCategories, genre \in GenreNames :
        LET r1 == GenreBranch(selected_genres[u], viewed_filter[u], category, genre)
            r2 == GenreBranch(r1.sg, r1.vf, category, genre)
        IN \A c \in Categories :
              /\ SelectedSet(r2.sg, c) = SelectedSet(selected_genres[u], c)
              /\ ViewedFlag(r2.vf, c) = ViewedFlag(viewed_filter[u], c)

\* A toggle has added a genre to a list that already held the other one, with
\* the viewed flag set.
C6_Witness ==
    \E u \in Users, category \in PayloadCategories :
        /\ last = [op |-> "genre", u |-> u]
        /\ raised = "none"
        /\ Len(DictGet(selected_genres[u], category, <<>>)) = 2
        /\ ViewedFlag(viewed_filter[u], category)

\* C7: every row of user_views refers to an object that exists.
C7_ViewedMarksHaveEntries == \A uv \in user_views : uv[2] \in ObjIds

\* The genre lists the count claims are checked for: up to two names, a name
\* of no genre row among them.
GenreZ == <<"z">>
ProbeSels ==
    {<<>>, <<GenreD>>, <<GenreC>>, <<GenreZ>>, <<GenreD, GenreC>>,
     <<GenreC, GenreZ>>}

\* C9, as stated: for every user, entry and filter, a view of the entry
\* followed by an unview of it leaves the viewed-only count as it was.
C9_ViewUnviewRestoresCount ==
    \A u \in StoreUsers, id \in ObjIds, category \in PayloadCategories, sel \in ProbeSels :
        CountIn(ClearView(RecordView(user_views, u, id), u, id),
                category, sel, TRUE, u)
            = CountIn(user_views, category, sel, TRUE, u)

\* C9, amended: the same for an entry the user has not marked viewed before
\* the view.
C9_ViewUnviewRestoresCountOfUnviewed ==
    \A u \in StoreUsers, id \in ObjIds, category \in PayloadCategories, sel \in ProbeSels :
        <<u, id>> \notin user_views
            => CountIn(ClearView(RecordView(user_views, u, id), u, id),
                       category, sel, TRUE, u)
                 = CountIn(user_views, category, sel, TRUE, u)

\* A user has just unviewed an entry that now carries no mark of that user,
\* and still has another entry marked, so the viewed-only count is not zero.
C9_Witness ==
    \E u \in Users, id \in ObjIds, other \in ObjIds :
        /\ last = [op |-> "unview", u |-> u]
        /\ <<u, id>> \notin user_views
        /\ other # id
        /\ <<u, other>> \in user_views
        /\ CountIn(user_views, NavCategory, <<>>, TRUE, u) >= 1

\* The entries of a category that carry every genre of a set and, with the
\* viewed flag, a mark of the user.
MatchingEntries(category, names, viewed, user_id) ==
    {id \in ObjIds :
        /\ objects[id].obj_type = category_map(category)
        /\ \A name \in names :
              \E g \in 1..Len(genres) :
                  genres[g] = name /\ Linked(id, g)
        /\ viewed => <<user_id, id>> \in user_views}

\* C10: the count is the number of entries of the category that carry every
\* genre of the list (and are viewed by the user under the viewed flag), and
\* a list with more genres never counts more.
C10_CountIsAndAntitone ==
    \A u \in StoreUsers, category \in Categories, viewed \in BOOLEAN, s1 \in ProbeSels :
        LET n1 == count_filtered_objects(category, s1, viewed, u)
        IN /\ n1 = Cardinality(MatchingEntries(category, SeqToSet(s1), viewed, u))
           /\ \A s2 \in ProbeSels :
                 SeqToSet(s1) \subseteq SeqToSet(s2)
                     => count_filtered_objects(category, s2, viewed, u) <= n1

\* A genre-filter screen shows a count that a selected genre and the viewed
\* flag have narrowed to one entry out of several.
C10_Witness ==
    \E u \in Users :
        /\ last = [op |-> "genre", u |-> u]
        /\ raised = "none"
        /\ screen[u].kind = "genres"
        /\ screen[u].count = 1
        /\ Len(DictGet(selected_genres[u], NavCategory, <<>>)) = 1
        /\ ViewedFlag(viewed_filter[u], NavCategory)
        /\ count_filtered_objects(NavCategory, <<>>, FALSE, u) >= 2

\* No two rows of a genres table have the same name.
UniqueGenreNames(table) ==
    \A g, h \in 1..Len(table) : table[g] = table[h] => g = h

\* The users whose next text is taken by add_genres with a pending object.
AtCommit == {u \in AddUsers : conv_state[u] = "GENRES" /\ new_object[u].has}

\* C8: no two rows of genres have the same name, whatever commits the
\* privileged users have interleaved; and the commit of any pending object
\* with any genre text keeps every genres row where it was, adds exactly one
\* row to objects, and links that row to a genres row of every listed name.
C8_GenresUniqueAndCommitLinks ==
    /\ UniqueGenreNames(genres)
    /\ \A u \in AtCommit, text \in GenreTexts :
          LET names == GenreList(text)
              done == Commit(objects, genres, object_genres, new_object[u], names)
          IN /\ UniqueGenreNames(done.genres)
             /\ SubSeq(done.genres, 1, Len(genres)) = genres
             /\ done.object_db_id \notin ObjIds
             /\ DOMAIN done.objects = ObjIds \cup {done.object_db_id}
             /\ \A id \in ObjIds : done.objects[id] = objects[id]
             /\ \A i \in 1..Len(names) :
                   \E k \in 1..Len(done.object_genres) :
                       /\ done.object_genres[k][1] = done.object_db_id
                       /\ done.genres[done.object_genres[k][2]] = names[i]
             /\ \A k \in 1..Len(done.object_genres) :
                   k > Len(object_genres) =>
                       /\ done.object_genres[k][1] = done.object_db_id
                       /\ done.object_genres[k][2] \in 1..Len(done.genres)

\* Two commits, by different users, have linked their objects to one genres
\* row, the second of them just now.
C8_Witness ==
    /\ last.op = "add_genres"
    /\ raised = "none"
    /\ Cardinality(ObjIds) = 2
    /\ \E g \in 1..Len(genres) : \A id \in ObjIds : Linked(id, g)
    /\ UniqueGenreNames(genres)

\* The users whose genre-filter screen was rendered by the last event.
JustRenderedGenres ==
    {u \in Users : /\ last.u = u
                   /\ last.op \in {"category", "genre", "back"}
                   /\ raised = "none"
                   /\ screen[u].kind = "genres"}

\* C11: every name get_available_genres returns is carried by an entry that
\* the count of the same category, genre list, viewed flag and user counts;
\* and every genre button of a genre-filter screen just rendered is carried
\* by an entry that matches the selection and the flag of its session.
C11_AvailableGenresOnMatchingEntries ==
    /\ \A u \in StoreUsers, category \in Categories, viewed \in BOOLEAN, sel \in ProbeSels :
          \A name \in get_available_genres(category, sel, viewed, u) :
              \E id \in MatchingEntries(category, SeqToSet(sel), viewed, u) :
                  id \in MatchingEntries(category, {name}, FALSE, u)
    /\ \A u \in JustRenderedGenres :
          \A name \in screen[u].genre_buttons :
              \E id \in MatchingEntries(screen[u].category,
                            SeqToSet(DictGet(selected_genres[u], screen[u].category, <<>>)),
                            DictGet(viewed_filter[u], screen[u].category, FALSE), u) :
                  id \in MatchingEntries(screen[u].category, {name}, FALSE, u)

\* A genre-filter screen just rendered offers some genre of its category but
\* not all of them: the filter has narrowed the offer.
C11_Witness ==
    \E u \in JustRenderedGenres :
        /\ screen[u].genre_buttons # {}
        /\ screen[u].genre_buttons #
              GenresOfCategory(screen[u].category, <<>>, FALSE, u)

\* Every key of a user's user_data but the stack is absent, and the stack is
\* empty.
Wiped(u) ==
    /\ message_stack[u] = <<>>
    /\ current_category[u] = "none"
    /\ selected_genres[u] = NoDict
    /\ viewed_filter[u] = NoDict
    /\ results_cache[u] = <<>>
    /\ results_page[u] = 0
    /\ new_object[u] = NoNewObject
    /\ edit_target[u] = NoEditTarget

\* C12: after /start and after "main menu" every session key of the user is
\* unset and its stack is empty; and no handle that the stack recorded when
\* "main menu" arrived is still displayed after it.
C12_ResetWipesSession ==
    [][\A u \in Users :
          (last'.u = u /\ last'.op \in {"start", "go_to_main_menu"})
              => /\ Wiped(u)'
                 /\ last'.op = "go_to_main_menu"
                       => /\ HandlesOf(message_stack[u]) \cap live'[u] = {}
                          /\ HandlesOf(message_stack[u]) =
                                UNION {SeqToSet(pops'[i].deleted) :
                                          i \in 1..Len(pops')}]_vars

\* "main menu" has just deleted the handles of a stack, in a session that
\* had a pending object and an edit target to wipe.
C12_Witness ==
    \E u \in Users :
        /\ last = [op |-> "go_to_main_menu", u |-> u]
        /\ pops # <<>>
        /\ pops[1].deleted # <<>>
        /\ conv_state[u] = "END"
        /\ edit_state[u] = "EDIT_CHOICE"
        /\ Wiped(u)

\* The state of the add conversation that a text handler serves, which is
\* also the prompt a handler sends when it advances to that state.
StateOfStep(op) ==
    CASE op = "add_year" -> "YEAR"
      [] op = "add_admin_rating" -> "ADMIN_RATING"
      [] op = "add_site_rating" -> "SITE_RATING"

\* C13: a reply at the year or a rating step that does not parse as a number
\* leaves the conversation in the state of the step, the pending object and
\* the storage as they were, and the field of the step is prompted again.
C13_ParseFailureReprompts ==
    [][\A u \in Users :
          (/\ last'.u = u
           /\ last'.op \in {"add_year", "add_admin_rating", "add_site_rating"}
           /\ raised' = "ValueError")
              => /\ conv_state'[u] = StateOfStep(last'.op)
                 /\ conv_state'[u] = conv_state[u]
                 /\ new_object'[u] = new_object[u]
                 /\ db' = db
                 /\ reply' = StateOfStep(last'.op)]_vars

\* C14: /cancel at any step of the add conversation ends the conversation,
\* leaves the storage as it was, and leaves no pending object in the session.
C14_CancelDiscardsPending ==
    [][\A u \in Users :
          (last'.u = u /\ last'.op = "cancel")
              => /\ conv_state'[u] = "END"
                 /\ db' = db
                 /\ ~new_object'[u].has]_vars

\* The session keys and the conversation states of a user.
SessionOf(u) ==
    <<message_stack[u], current_category[u], selected_genres[u],
      viewed_filter[u], results_cache[u], results_page[u], new_object[u],
      edit_target[u], conv_state[u], edit_state[u]>>

AdminOnlyOps == {"admin_panel", "add_object", "delete", "edit_object"}

\* C15: an admin-only payload sent by a user outside ADMIN_IDS leaves the
\* storage, the session keys and the conversation states of that user as
\* they were; and such a user is never in a state of the add or of the edit
\* conversation and never holds a pending object or an edit target.
C15_OrdinaryUserIsRefused ==
    /\ [](\A u \in Users \ ADMIN_IDS :
             /\ conv_state[u] = "END"
             /\ edit_state[u] = "END"
             /\ new_object[u] = NoNewObject
             /\ edit_target[u] = NoEditTarget)
    /\ [][\A u \in Users \ ADMIN_IDS :
             (last'.u = u /\ last'.op \in AdminOnlyOps)
                 => /\ db' = db
                    /\ SessionOf(u)' = SessionOf(u)
                    /\ screen'[u] = screen[u]]_vars

\* An ordinary user has just sent the delete payload for an entry of its
\* results page, and the entry is still stored.
C15_Witness ==
    \E u \in Users \ ADMIN_IDS :
        /\ last = [op |-> "delete", u |-> u]
        /\ results_cache[u] # <<>>
        /\ CachedIds(u) \subseteq ObjIds

\* The handlers that read the catalog: count_filtered_objects and
\* get_available_genres (category, genre, back), the filtered SELECT
\* (select) and get_category_genres (add_site_rating).
CatalogReadOps == {"category", "genre", "back", "select", "add_site_rating"}

\* C16: a catalog read that hits a storage failure raises nothing out of its
\* handler, and a select press under a failed read ends on the "nothing
\* found" screen with an empty results cache.
C16_ReadFailureDegrades ==
    [][\A u \in Users :
          (/\ last'.u = u
           /\ last'.op \in CatalogReadOps
           /\ storage_fails > 0)
              => /\ raised' # "OperationalError"
                 /\ last'.op = "select"
                       => /\ screen'[u].kind = "notfound"
                          /\ results_cache'[u] = <<>>]_vars

\* The handlers that write the catalog: the commit of add_genres, the
\* UPDATE of edit_field, the DELETE of delete, and the user_views statements
\* of view and unview.
CatalogWriteOps == {"add_genres", "edit_field", "delete", "view", "unview"}

\* The step of user u is a catalog write met by a storage failure.
FailedWrite(u) ==
    /\ last'.u = u
    /\ last'.op \in CatalogWriteOps
    /\ storage_fails > 0
    /\ last'.op = "delete" => is_admin(u)
    /\ last'.op = "add_genres" => new_object[u].has
    /\ last'.op = "edit_field" => edit_target[u].field # None

\* C17: a catalog write that hits a storage failure is made a second time:
\* no storage error leaves the handler; when the second attempt succeeds an
\* added object is stored once, and when it fails too the storage is as it
\* was and the user is sent the failure notice.
C17_WriteRetriedOnce ==
    [][\A u \in Users :
          FailedWrite(u)
              => /\ raised' # "OperationalError"
                 /\ (storage_fails = 1 /\ last'.op = "add_genres")
                       => /\ Cardinality(DOMAIN objects')
                               = Cardinality(DOMAIN objects) + 1
                          /\ reply' = "added"
                 /\ storage_fails > 1
                       => /\ db' = db
                          /\ reply' = "add_failed"]_vars

\* C18: a step handled for one user leaves every session key and both
\* conversation states of every other user as they were.
C18_SessionsAreIsolated ==
    [][\A a \in Users : \A b \in Users \ {a} :
          last'.u = a => SessionOf(b)' = SessionOf(b)]_vars

\* The ordinary user has just pressed select, while the privileged user is
\* in the add conversation with a pending object and holds a results page.
C18_Witness ==
    /\ last = [op |-> "select", u |-> 3]
    /\ conv_state[1] = "NAME"
    /\ new_object[1].has
    /\ results_cache[1] # <<>>
    /\ message_stack[1] # <<>>
    /\ message_stack[3] # message_stack[1]

\* The presses that browse the results of a filter.
BrowsingOps == {"select", "page", "view", "unview", "delete", "back"}

\* C19: select, page, view, unview, delete and back leave the selected
\* genres and the viewed filter of the user as they were, and the genre screen
\* that back rebuilds shows the count of the objects matching that selection.
C19_FilterSurvivesBrowsing ==
    [][\A u \in Users :
          (last'.u = u /\ last'.op \in BrowsingOps)
              => /\ selected_genres'[u] = selected_genres[u]
                 /\ viewed_filter'[u] = viewed_filter[u]
                 /\ (last'.op = "back" /\ screen'[u].kind = "genres")
                       => screen'[u].count =
                            count_filtered_objects(
                                screen'[u].category,
                                DictGet(selected_genres[u], screen'[u].category, <<>>),
                                DictGet(viewed_filter[u], screen'[u].category, FALSE),
                                u)]_vars

\* The user has toggled genre "d", applied the filter, turned to the second
\* page and has just gone back to the genre screen, which counts the objects
\* of genre "d" only.
C19_Witness ==
    \E u \in Users :
        /\ last = [op |-> "back", u |-> u]
        /\ screen[u].kind = "genres"
        /\ DictGet(selected_genres[u], NavCategory, <<>>) = <<GenreD>>
        /\ results_page[u] = 1
        /\ results_cache[u] # <<>>
        /\ screen[u].count < Cardinality(ObjIds)
        /\ screen[u].count > 0

\* A pop of the step of user u met a handle whose deletion fails.
DeletionFailed(u) ==
    /\ last'.u = u
    /\ \E i \in DOMAIN pops' :
          /\ pops'[i].before # <<>>
          /\ SeqToSet(pops'[i].before[Len(pops'[i].before)])
                \cap undeletable[u] # {}

\* The presses and texts that pop a level and render the next one.
RenderingOps == {"show_recommendations", "category", "select", "page", "back"}

\* C20: when delete_message fails for a handle of a popped level, every pop
\* of the step still removes its level and passes every handle of it to
\* delete_message, nothing is raised, and a step that renders goes on to
\* push a level and to record the messages it sends in it.
C20_FailedDeletionNeverAborts ==
    [][\A u \in Users :
          DeletionFailed(u)
              => /\ \A i \in DOMAIN pops' :
                       pops'[i].before # <<>>
                          => /\ pops'[i].after =
                                  SubSeq(pops'[i].before, 1,
                                         Len(pops'[i].before) - 1)
                             /\ pops'[i].deleted =
                                  pops'[i].before[Len(pops'[i].before)]
                 /\ raised' = "none"
                 /\ last'.op \in RenderingOps
                       => /\ Len(message_stack'[u]) =
                               Len(pops'[Len(pops')].after) + 1
                          /\ message_stack'[u][Len(message_stack'[u])] # <<>>
                          /\ SeqToSet(message_stack'[u][Len(message_stack'[u])])
                                \subseteq live'[u]
                          /\ screen'[u] # NoScreen]_vars

\* The user has just gone back from a results page of three messages: the
\* deletion of the first failed and it is still on display, outside the
\* stack; the other two were deleted, and the target screen has been sent on
\* a new level, whose message is the only other one on display.
C20_Witness ==
    \E u \in Users :
        /\ last = [op |-> "back", u |-> u]
        /\ Len(pops) = 1
        /\ Len(pops[1].deleted) = 3
        /\ pops[1].deleted[1] \in undeletable[u]
        /\ pops[1].deleted[1] \notin HandlesOf(message_stack[u])
        /\ Len(message_stack[u]) = 1
        /\ Len(message_stack[u][1]) = 1
        /\ live[u] = {pops[1].deleted[1]} \cup HandlesOf(message_stack[u])
        /\ screen[u].kind \in {"menu", "genres"}

\* C21: a press whose action is none that button knows raises nothing and
\* leaves the session keys, the conversation states, the navigation stack,
\* the displayed messages and the storage as they were, and deletes nothing.
C21_UnknownActionIgnored ==
    [][\A u \in Users :
          (last'.u = u /\ last'.op = "unknown")
              => /\ raised' = "none"
                 /\ SessionOf(u)' = SessionOf(u)
                 /\ live' = live
                 /\ pops' = <<>>
                 /\ db' = db]_vars

\* The user has just pressed a button of an unknown action on a results
\* page, while the edit conversation waits for the choice of a field.
C21_Witness ==
    \E u \in Users :
        /\ last = [op |-> "unknown", u |-> u]
        /\ message_stack[u] # <<>>
        /\ results_cache[u] # <<>>
        /\ edit_state[u] = "EDIT_CHOICE"

\* C22: a select press on a screen whose level is on the stack caches
\* exactly the matching entries of the category, each once and as stored,
\* sets the page to 0, pops the top level once and pushes one level holding
\* the messages of page 0, so the stack is as deep as before.
C22_SelectCachesMatchingEntries ==
    [][\A u \in Users :
          (/\ last'.u = u
           /\ last'.op = "select"
           /\ raised' = "none"
           /\ message_stack[u] # <<>>)
              => LET category == screen'[u].category
                     matching ==
                         MatchingEntries(category,
                             SeqToSet(DictGet(selected_genres[u], category, <<>>)),
                             DictGet(viewed_filter[u], category, FALSE), u)
                 IN /\ CachedIds(u)' = matching
                    /\ Len(results_cache'[u]) = Cardinality(matching)
                    /\ \A i \in 1..Len(results_cache'[u]) :
                          results_cache'[u][i] = Row(results_cache'[u][i].id)
                    /\ results_page'[u] = 0
                    /\ Len(pops') = 1
                    /\ pops'[1].before = message_stack[u]
                    /\ Len(message_stack'[u]) = Len(message_stack[u])
                    /\ Front(message_stack'[u]) = Front(message_stack[u])
                    /\ Len(Top(message_stack'[u]))
                          = PageMessages(results_cache'[u], 0)
                    /\ screen'[u].page = 0
                    /\ screen'[u].kind
                          = IF matching = {} THEN "notfound" ELSE "results"]_vars

\* A user who filters by genre "c" and by the viewed flag has just pressed
\* select: of the two films one carries "c" and is marked viewed, and it
\* alone is cached.
C22_Witness ==
    \E u \in Users :
        /\ last = [op |-> "select", u |-> u]
        /\ DictGet(selected_genres[u], NavCategory, <<>>) = <<GenreC>>
        /\ DictGet(viewed_filter[u], NavCategory, FALSE)
        /\ Len(results_cache[u]) = 1
        /\ Cardinality(ObjIds) = 2
        /\ Cardinality({uv \in user_views : uv[1] = u}) = 2

\* The presses that edit a displayed message in place.
InPlaceOps == {"genre", "view", "unview"}

\* C23: a genre toggle, a viewed-filter toggle, a view and an unview press
\* call no pop, push no level and record no handle: the stack and the
\* displayed messages of the user, the entries of the results cache and the
\* page are the same before and after.
C23_InPlaceEventsKeepStack ==
    [][\A u \in Users :
          (last'.u = u /\ last'.op \in InPlaceOps)
              => /\ pops' = <<>>
                 /\ message_stack'[u] = message_stack[u]
                 /\ live'[u] = live[u]
                 /\ CachedIds(u)' = CachedIds(u)
                 /\ Len(results_cache'[u]) = Len(results_cache[u])
                 /\ results_page'[u] = results_page[u]]_vars

\* A user has just marked an entry of its results page viewed: the mark is
\* stored and the results level still holds its three messages.
C23_Witness ==
    \E u \in Users :
        /\ last = [op |-> "view", u |-> u]
        /\ raised = "none"
        /\ \E id \in CachedIds(u) : <<u, id>> \in user_views
        /\ Len(message_stack[u]) = 1
        /\ Len(message_stack[u][1]) = 3
        /\ SeqToSet(message_stack[u][1]) = live[u]

\* The events that leave one screen for another.
NavigationOps ==
    {"category", "select", "page", "delete", "back", "edit_field", "cancel_edit"}

\* C24: in a navigation step that pops, the first pop acts on the stack as
\* the event found it, every pop passes exactly the handles of the top level
\* to delete_message and removes the level, each pop goes on from the stack
\* the one before left, and the levels under a pushed level are the levels
\* the last pop left: no message of the new screen is recorded in an old level.
C24_PopBeforePushAndSend ==
    [][\A u \in Users :
          (last'.u = u /\ last'.op \in NavigationOps /\ pops' # <<>>)
              => /\ pops'[1].before = message_stack[u]
                 /\ \A i \in 1..Len(pops') :
                       /\ pops'[i].before # <<>>
                             => /\ pops'[i].deleted = Top(pops'[i].before)
                                /\ pops'[i].after = Front(pops'[i].before)
                       /\ pops'[i].before = <<>>
                             => /\ pops'[i].deleted = <<>>
                                /\ pops'[i].after = <<>>
                       /\ i > 1 => pops'[i].before = pops'[i - 1].after
                 /\ \/ message_stack'[u] = pops'[Len(pops')].after
                    \/ /\ message_stack'[u] # <<>>
                       /\ Front(message_stack'[u]) = pops'[Len(pops')].after
                 /\ raised' = "none"
                       => /\ message_stack'[u] # <<>>
                          /\ Top(message_stack'[u]) # <<>>
                          /\ HandlesOf(message_stack'[u]) = live'[u]]_vars

\* The privileged user has just committed an edit from a results page: the
\* level of the three messages was popped whole and one new level holds the
\* page that was sent again.
C24_Witness ==
    \E u \in Users :
        /\ last = [op |-> "edit_field", u |-> u]
        /\ raised = "none"
        /\ Len(pops) = 1
        /\ Len(pops[1].deleted) = 3
        /\ pops[1].after = <<>>
        /\ Len(message_stack[u]) = 1
        /\ Len(message_stack[u][1]) = 3

\* C25: a press of any offered field button for a stored object records the
\* field and moves the edit conversation to EDIT_FIELD, and the text reply
\* that follows stores the value in that column, or for 'genres' replaces
\* the genre links of the object, and ends the conversation.
C25_EveryFieldCanBeEdited ==
    [][\A u \in Users :
          /\ (/\ last'.u = u
              /\ last'.op = "edit_choice"
              /\ edit_target[u].object_id # None
              /\ edit_target[u].object_id[1] \in ObjIds)
                 => /\ raised' = "none"
                    /\ edit_target'[u].field # None
                    /\ edit_target'[u].field[1] \in OfferedFields
                    /\ edit_state'[u] = "EDIT_FIELD"
          /\ (/\ last'.u = u
              /\ last'.op = "edit_field"
              /\ edit_target[u].object_id[1] \in ObjIds)
                 => /\ raised' = "none"
                    /\ edit_state'[u] = "END"
                    /\ edit_target[u].field[1] # "genres"
                          => objects'[edit_target[u].object_id[1]]
                                    [edit_target[u].field[1]]
                               = ColumnValue(edit_target[u].field[1], EditText)
                    /\ edit_target[u].field[1] = "genres"
                          => \A g \in 1..Len(genres') :
                                Linked(edit_target[u].object_id[1], g)'
                                   <=> genres'[g] \in SeqToSet(GenreList(EditText))]_vars

\* The keys of a cached row.
RowKeys ==
    {"id", "obj_type", "obj_name", "obj_year", "obj_description", "obj_url",
     "obj_image", "admin_rating", "site_rating"}

\* C26: after the text reply of the edit conversation has stored a value,
\* the cached row of the object holds the text under the key of the field
\* and is otherwise as it was, every other cached row and the page are
\* unchanged, and the top level has been popped once and one level with the
\* messages of the page has been pushed in its place.
C26_EditRefreshesCacheAndPage ==
    [][\A u \in Users :
          (last'.u = u /\ last'.op = "edit_field" /\ raised' = "none")
              => LET e == edit_target[u].object_id[1]
                     f == edit_target[u].field[1]
                 IN /\ Len(results_cache'[u]) = Len(results_cache[u])
                    /\ \A i \in 1..Len(results_cache[u]) :
                          IF results_cache[u][i].id = e
                          THEN /\ results_cache'[u][i][f] = EditText
                               /\ \A k \in RowKeys \ {f} :
                                     results_cache'[u][i][k]
                                        = results_cache[u][i][k]
                          ELSE results_cache'[u][i] = results_cache[u][i]
                    /\ results_page'[u] = results_page[u]
                    /\ Len(pops') = 1
                    /\ pops'[1].before = message_stack[u]
                    /\ message_stack[u] # <<>>
                          => /\ Len(message_stack'[u]) = Len(message_stack[u])
                             /\ Front(message_stack'[u]) = Front(message_stack[u])
                    /\ Len(Top(message_stack'[u]))
                          = PageMessages(results_cache'[u], results_page'[u])
                    /\ screen'[u].kind = "results"
                    /\ screen'[u].page = results_page[u]]_vars

\* The privileged user has just given the first object a new name: the
\* store and the cached row hold it, the second cached row is there, and
\* the new results level holds the three messages of the page.
C26_Witness ==
    \E u \in Users :
        /\ last = [op |-> "edit_field", u |-> u]
        /\ raised = "none"
        /\ edit_target[u].field = Some("obj_name")
        /\ Len(results_cache[u]) = 2
        /\ results_cache[u][1].id = EditObject
        /\ results_cache[u][1].obj_name = EditText
        /\ objects[EditObject].obj_name = EditText
        /\ results_cache[u][2].obj_name # EditText
        /\ Len(message_stack[u]) = 1
        /\ Len(message_stack[u][1]) = 3

\* C27: a cancel press on the field keyboard leaves the storage, the
\* results cache and the page as they were, ends the edit conversation, pops
\* the top level once and pushes one level with the messages of the same
\* page of the same category, so the stack is as deep as before.
C27_CancelEditReturnsToResults ==
    [][\A u \in Users :
          (/\ last'.u = u
           /\ last'.op = "cancel_edit"
           /\ edit_state[u] = "EDIT_CHOICE"
           /\ edit_target[u].category # None
           /\ message_stack[u] # <<>>)
              => /\ raised' = "none"
                 /\ db' = db
                 /\ results_cache'[u] = results_cache[u]
                 /\ results_page'[u] = results_page[u]
                 /\ edit_state'[u] = "END"
                 /\ Len(pops') = 1
                 /\ pops'[1].before = message_stack[u]
                 /\ Len(message_stack'[u]) = Len(message_stack[u])
                 /\ Front(message_stack'[u]) = Front(message_stack[u])
                 /\ Len(Top(message_stack'[u]))
                       = PageMessages(results_cache[u], results_page[u])
                 /\ screen'[u] = ResultsScreen(edit_target[u].category[1],
                                               results_cache[u],
                                               results_page[u])]_vars

\* The privileged user has just cancelled the edit of an object it had
\* renamed before: the conversation has ended, the stored name is the one of
\* the earlier edit, and a new results level holds the three messages.
C27_Witness ==
    \E u \in Users :
        /\ last = [op |-> "cancel_edit", u |-> u]
        /\ raised = "none"
        /\ edit_state[u] = "END"
        /\ objects[EditObject].obj_name = EditText
        /\ Len(results_cache[u]) = 2
        /\ Len(message_stack[u]) = 1
        /\ Len(message_stack[u][1]) = 3
        /\ screen[u].kind = "results"

\* C28: the stack of a user never holds more than one level.
C28_AtMostOneLevel ==
    \A u \in Users : Len(message_stack[u]) <= 1

\* A press has just popped a level that held messages and pushed the level
\* of the next screen: the stack holds that one level.
C28_Witness ==
    \E u \in Users :
        /\ last.u = u
        /\ last.op \in {"category", "select", "page", "back", "cancel_edit"}
        /\ Len(pops) >= 1
        /\ pops[1].before # <<>>
        /\ pops[1].deleted # <<>>
        /\ Len(message_stack[u]) = 1
        /\ message_stack[u][1] # <<>>

\* C29: every screen message on display is recorded in a level of the stack
\* of its user.
C29_NoScreenMessageLeaked ==
    \A u \in Users : live[u] \subseteq HandlesOf(message_stack[u])

\* C30: while the add conversation of a user waits for a text reply, the
\* session of the user holds the pending object.
C30_PendingPresentInTextStates ==
    \A u \in Users : InAddTextState(u) => new_object[u].has

\* C31: whenever the genre-filter screen has just been rendered (category
\* selection, genre or viewed toggle, back to genres), every genre selected
\* for its category is offered as a toggle button on it, also when the
\* filter matches no entry.
C31_SelectedGenresAreOffered ==
    \A u \in Users :
        (/\ last.u = u
         /\ last.op \in {"category", "genre", "back"}
         /\ raised = "none"
         /\ screen[u].kind = "genres")
        => SeqToSet(DictGet(selected_genres[u], screen[u].category, <<>>))
               \subseteq screen[u].genre_buttons

====
